---- MODULE Spec2Model ----
(***************************************************************************)
(* A model of the frame pipeline of viz-rs: the exponential smoothing      *)
(* stage (exponential_smoothing.rs), the sliding framer (sliding.rs) over  *)
(* a sample source (wav.rs), the Channeled value (channeled.rs), and the   *)
(* frame mappers: the spectral stage (fft.rs), the binning stage           *)
(* (binner.rs) inside its ChanneledMapperWrapper (framed.rs), and the      *)
(* Savitzky-Golay smoothing stage (savitzky_golay.rs).  Further sections   *)
(* model the leveling functions and validate_config (pipeline.rs, viz.rs), *)
(* MappedFramed (framed.rs), WavFile::seek_samples (wav.rs), the parallel  *)
(* computation of the filter coefficients (savitzky_golay.rs) and Fraction *)
(* (fraction.rs), the loop of Binner::map (binner.rs), WavPlayer           *)
(* (player.rs) and the driver loop of visualize (viz.rs); each has its own *)
(* specification over the variable `stage`.                                *)
(*                                                                         *)
(* Numbers.  The stages work on f64.  The model keeps every value as an    *)
(* integer numerator over the fixed denominator Scale, and alpha as the    *)
(* numerator of a fraction over AlphaDen; Scale is a power of AlphaDen     *)
(* with one factor for every frame a run of the model can return, so every *)
(* blend the model can reach is exact.  Rounding of f64 is not modelled.   *)
(*                                                                         *)
(* A panic (an index out of range, an arithmetic underflow checked by the  *)
(* build or caught by the slice operation that follows it) is the outcome  *)
(* "panic"; the object takes no further call after it.                     *)
(***************************************************************************)
EXTENDS Integers, Sequences, FiniteSets, TLC

VARIABLES
    es,         \* the ExponentialSmoothing object and the source it owns
    es_op,      \* the last call made on it: its name, argument and outcome,
                \* the object as it was before the call, whether every
                \* earlier call was a next_frame that returned a frame
                \* (pure), and how many such calls came right before it
    es_emitted, \* history: every frame next_frame returned, oldest first
    sf,         \* the SlidingFrame object and the sample source it owns
    sf_op,      \* the last call made on it, how many frames of full size
                \* next_frame returned so far, and whether a next_frame
                \* since the last seek_frame returned no frame
    sf_count,   \* history: how many frames next_frame returned
    zp,         \* the operands and the result of Channeled::zip
    stage,      \* one frame mapper (FramedFft, the Binner inside its
                \* ChanneledMapperWrapper, or the SavitzkyGolayMapper)
    stage_op    \* the last call made on it: its name, the input frame,
                \* the outcome and the frame it emitted

vars == <<es, es_op, es_emitted, sf, sf_op, sf_count, zp, stage, stage_op>>
esVars == <<es, es_op, es_emitted>>
sfVars == <<sf, sf_op, sf_count>>
zpVars == <<zp>>
stVars == <<stage, stage_op>>

\* ---------------------------------------------------------------- bounds
MaxFrames == 3      \* frames a frame source holds at most
FrameSize == 2      \* elements of one frame of the smoothing stage's source
MaxSeekBack == 2    \* largest seek-back limit tried
MaxSeek == 2        \* largest |n| passed to seek_frame
AlphaDen == 4       \* alpha is AlphaNum / AlphaDen
MaxValue == 2       \* raw values are 0..MaxValue (times Scale)
MaxTicks == 4       \* no call is made once this many frames were returned
MaxSamples == 4     \* samples a sample source holds at most
MaxSize == 3        \* largest frame size of the sliding framer
MaxStride == 3      \* largest stride of the sliding framer

RECURSIVE Pow(_, _)
Pow(b, e) == IF e = 0 THEN 1 ELSE b * Pow(b, e - 1)
Scale == Pow(AlphaDen, MaxTicks + MaxSeek)

\* --------------------------------------------------------------- helpers
Min(a, b) == IF a < b THEN a ELSE b
\* Vec::remove(i), 0-based: the vector without its element i
VecRemove(v, i) == SubSeq(v, 1, i) \o SubSeq(v, i + 2, Len(v))
\* Vec::drain(a..b), 0-based half-open: the vector without elements a..b-1
VecDrain(v, a, b) == SubSeq(v, 1, a) \o SubSeq(v, b + 1, Len(v))
\* Vec::insert(0, x)
VecInsertFront(v, x) == <<x>> \o v

\* ------------------------------------------------------------- Channeled
Mono(v) == <<"Mono", v>>
Stereo(a, b) == <<"Stereo", a, b>>
IsMono(c) == c[1] = "Mono"
IsStereo(c) == c[1] = "Stereo"
Some(x) == <<"Some", x>>
None == <<"None">>
Unset == <<"Unset">>
Mismatch == <<"Mismatch">>

\* Channeled::zip
\* (Channeled_zip_coerce: a Mono operand is spread over both channels)
Channeled_zip_coerce(self, other) ==
    IF IsStereo(self)
    THEN IF IsStereo(other)
         THEN Some(Stereo(<<self[2], other[2]>>, <<self[3], other[3]>>))
         ELSE Some(Stereo(<<self[2], other[2]>>, <<self[3], other[2]>>))
    ELSE IF IsMono(other)
         THEN Some(Mono(<<self[2], other[2]>>))
         ELSE Some(Stereo(<<self[2], other[2]>>, <<self[2], other[3]>>))
Channeled_zip(self, other) ==
    IF IsStereo(self)
    THEN IF IsStereo(other)
         THEN Some(Stereo(<<self[2], other[2]>>, <<self[3], other[3]>>))
         ELSE None
    ELSE IF IsMono(other)
         THEN Some(Mono(<<self[2], other[2]>>))
         ELSE None

\* ------------------------------------------ the source of a smoothing stage
(* ExponentialSmoothing<S> is generic over S: Framed<Channeled<f64>>.  The   *)
(* model's S is a frame source that holds `len` frames of FrameSize          *)
(* elements and a read position `pos`; frame k is all Mono or all Stereo     *)
(* (chans[k+1]); `full` is what it answers to num_full_frames().             *)
AllSources ==
    { [len |-> l, full |-> f, chans |-> c, pos |-> 0] :
        l \in 1..MaxFrames, f \in 0..MaxFrames,
        c \in {[k \in 1..MaxFrames |-> "Mono"], [k \in 1..MaxFrames |-> "Stereo"],
               [k \in 1..MaxFrames |-> IF k = 1 THEN "Stereo" ELSE "Mono"]} }
\* num_full_frames() is at most num_frames()
Sources == { src \in AllSources : src.full <= src.len }

\* the raw value of element i (from 0) of frame k (from 0), channel ch (0, 1)
SrcValue(src, k, i, ch) ==
    ((k * (i + 2) + i + ch * (k + 1)) % (MaxValue + 1)) * Scale

SrcFrame(src, k) ==
    [i \in 1..FrameSize |->
        IF src.chans[k + 1] = "Mono"
        THEN Mono(SrcValue(src, k, i - 1, 0))
        ELSE Stereo(SrcValue(src, k, i - 1, 0), SrcValue(src, k, i - 1, 1))]

Src_num_frames(src) == src.len
Src_num_full_frames(src) == src.full

\* S::next_frame: the frame at pos, or no frame at the end, or an error
Src_next_frame(src, fail) ==
    IF fail THEN [src |-> src, ret |-> "err", frame |-> <<>>]
    ELSE IF src.pos >= src.len THEN [src |-> src, ret |-> "none", frame |-> <<>>]
    ELSE [src |-> [src EXCEPT !.pos = @ + 1], ret |-> "some",
          frame |-> SrcFrame(src, src.pos)]

\* S::seek_frame(n): moves the position, or fails and leaves it
Src_seek_frame(src, n, fail) ==
    IF fail \/ src.pos + n < 0 \/ src.pos + n > src.len
    THEN [src |-> src, ret |-> "err"]
    ELSE [src |-> [src EXCEPT !.pos = @ + n], ret |-> "ok"]

\* ----------------------------------------------------- ExponentialSmoothing
\* alpha * prev + (1 - alpha) * cur, alpha = a / AlphaDen
\* (BlendSwapped: alpha on the side of the current value)
BlendSwapped(a, prev, cur) == ((cur * a) + (prev * (AlphaDen - a))) \div AlphaDen
Blend(a, prev, cur) == ((cur * (AlphaDen - a)) + (prev * a)) \div AlphaDen

\* one element of the loop of next_frame: the blended element, or Mismatch
SmoothElem(a, prev, cur) ==
    IF IsStereo(cur)
    THEN IF IsStereo(prev)
         THEN Stereo(Blend(a, prev[2], cur[2]), Blend(a, prev[3], cur[3]))
         ELSE Mismatch
    ELSE IF IsMono(prev)
         THEN Mono(Blend(a, prev[2], cur[2]))
         ELSE Mismatch

\* the loop of next_frame over prev, from index idx (from 0) on: cur with
\* the elements blended in place; it stops at the first mismatch (an error)
\* and panics when cur is shorter than prev
RECURSIVE SmoothFrom(_, _, _, _)
SmoothFrom(a, prev, cur, idx) ==
    IF idx >= Len(prev) THEN [ret |-> "ok", cur |-> cur]
    ELSE IF idx >= Len(cur) THEN [ret |-> "panic", cur |-> cur]
    ELSE LET e == SmoothElem(a, prev[idx + 1], cur[idx + 1]) IN
         IF e = Mismatch THEN [ret |-> "err", cur |-> cur]
         ELSE SmoothFrom(a, prev, [cur EXCEPT ![idx + 1] = e], idx + 1)

ES_new(source, seek_back_limit, alpha) ==
    [source |-> source, cur |-> <<>>, previous |-> <<>>,
     n_prev |-> seek_back_limit, alpha |-> alpha, at |-> 0]

ES_num_frames(s) == Src_num_frames(s.source)
ES_num_full_frames(s) == Src_num_full_frames(s.source)

\* "move cur to prev": cur is drained into a new front of previous, the
\* oldest frame leaving when previous is full; previous.len() - 1 with an
\* empty previous is the panic
PushPrev(s) ==
    IF Len(s.previous) < s.n_prev
    THEN [ret |-> "ok",
          st |-> [s EXCEPT !.previous = VecInsertFront(@, s.cur), !.cur = <<>>]]
    ELSE IF Len(s.previous) = 0 THEN [ret |-> "panic", st |-> s]
    ELSE [ret |-> "ok",
          st |-> [s EXCEPT
                    !.previous = VecInsertFront(VecRemove(@, Len(@) - 1), s.cur),
                    !.cur = <<>>]]

\* the blend of next_frame, after cur was extended with the source's frame
\* (SmoothAlways: the first tick blended against a history of zeros)
SmoothAlways(s) ==
    IF s.at > 0
    THEN SmoothFrom(s.alpha, s.previous[1], s.cur, 0)
    ELSE SmoothFrom(s.alpha, [i \in 1..Len(s.cur) |->
                                 IF IsMono(s.cur[i]) THEN Mono(0) ELSE Stereo(0, 0)],
                    s.cur, 0)
Smooth(s) ==
    IF s.at > 0
    THEN SmoothFrom(s.alpha, s.previous[1], s.cur, 0)
    ELSE [ret |-> "ok", cur |-> s.cur]

\* a next_frame that moves cur to the history before it asks the source
ES_next_frame_moving(s, fail) ==
    LET r == Src_next_frame(s.source, fail)
        s1 == [s EXCEPT !.source = r.src]
        pushed == IF s.at > 0 THEN PushPrev(s1) ELSE [ret |-> "ok", st |-> s1]
    IN
    IF pushed.ret = "panic" THEN [st |-> s1, ret |-> "panic", outs |-> <<>>]
    ELSE IF s.at = ES_num_frames(s)
    THEN [st |-> [pushed.st EXCEPT !.source = s.source], ret |-> "none",
          outs |-> <<>>]
    ELSE IF r.ret # "some" THEN [st |-> pushed.st, ret |-> r.ret, outs |-> <<>>]
    ELSE
    LET s2 == [pushed.st EXCEPT !.cur = @ \o r.frame]
        sm == Smooth(s2)
        s3 == [s2 EXCEPT !.cur = sm.cur]
    IN
    IF sm.ret # "ok" THEN [st |-> s3, ret |-> sm.ret, outs |-> <<>>]
    ELSE [st |-> [s3 EXCEPT !.at = @ + 1], ret |-> "some", outs |-> <<s3.cur>>]

\* next_frame; `fail`: the source's next_frame returns an error.
\* The result: the object after the call, the outcome ("some": a frame,
\* which is cur; "none"; "err"; "panic") and the frames returned.
ES_next_frame(s, fail) ==
    IF s.at = ES_num_frames(s) THEN [st |-> s, ret |-> "none", outs |-> <<>>]
    ELSE
    LET r == Src_next_frame(s.source, fail)
        s1 == [s EXCEPT !.source = r.src]
    IN
    IF r.ret # "some" THEN [st |-> s1, ret |-> r.ret, outs |-> <<>>]
    ELSE
    LET pushed == IF s.at > 0 THEN PushPrev(s1) ELSE [ret |-> "ok", st |-> s1] IN
    IF pushed.ret = "panic" THEN [st |-> s1, ret |-> "panic", outs |-> <<>>]
    ELSE
    LET s2 == [pushed.st EXCEPT !.cur = @ \o r.frame]
        sm == Smooth(s2)
        s3 == [s2 EXCEPT !.cur = sm.cur]
    IN
    IF sm.ret # "ok" THEN [st |-> s3, ret |-> sm.ret, outs |-> <<>>]
    ELSE [st |-> [s3 EXCEPT !.at = @ + 1], ret |-> "some", outs |-> <<s3.cur>>]

\* seek_frame(n) for n > 0: next_frame n times, an error ending the call, a
\* frame or no frame ignored; k calls are left, `fail`: the source's next
\* answer is an error
RECURSIVE ES_replay(_, _, _)
ES_replay(s, k, fail) ==
    IF k = 0 THEN [st |-> s, ret |-> "ok", outs |-> <<>>]
    ELSE LET r == ES_next_frame(s, fail) IN
         IF r.ret \in {"err", "panic"} THEN [st |-> r.st, ret |-> r.ret, outs |-> r.outs]
         ELSE LET rest == ES_replay(r.st, k - 1, FALSE) IN
              [st |-> rest.st, ret |-> rest.ret, outs |-> r.outs \o rest.outs]

\* the end of seek_frame: at, as the calls above left it, moved by n
ES_seek_set_at(s, n, outs) ==
    LET new_at == s.at + n IN
    IF new_at < 0 THEN [st |-> s, ret |-> "err", outs |-> outs]
    ELSE [st |-> [s EXCEPT !.at = new_at], ret |-> "ok", outs |-> outs]

\* seek_frame(n); `fail`: the first call made on the source returns an error
ES_seek_frame(s, n, fail) ==
    IF n = 0 THEN [st |-> s, ret |-> "ok", outs |-> <<>>]
    ELSE
    LET new_at == s.at + n
        max_at == ES_num_full_frames(s)
    IN
    IF new_at < 0 \/ new_at >= max_at THEN [st |-> s, ret |-> "err", outs |-> <<>>]
    ELSE IF n < 0 THEN
        \* previous.len() - 1 underflows on an empty history: the build that
        \* checks it panics there, the other one in drain(1..-n)
        IF Len(s.previous) = 0 THEN [st |-> s, ret |-> "panic", outs |-> <<>>]
        ELSE
        LET max_prev == Len(s.previous) - 1 IN
        IF max_prev < -n THEN [st |-> s, ret |-> "err", outs |-> <<>>]
        ELSE
        LET drained == VecDrain(s.previous, 1, -n)
            s1 == [s EXCEPT !.cur = drained[1], !.previous = VecRemove(drained, 0)]
            r == Src_seek_frame(s.source, n, fail)
        IN
        IF r.ret = "err" THEN [st |-> s1, ret |-> "err", outs |-> <<>>]
        ELSE ES_seek_set_at([s1 EXCEPT !.source = r.src], n, <<>>)
    ELSE
        LET r == ES_replay(s, n, fail) IN
        IF r.ret # "ok" THEN r
        ELSE ES_seek_set_at(r.st, n, r.outs)

ES_num_frames_remain(s) == ES_num_frames(s) - s.at

\* ------------------------------------------------- the stages left alone
SFIdle == [source |-> [num_samples |-> 0, sample_at |-> 0],
           buf |-> <<>>, cur_buf |-> <<>>, size |-> 1, stride |-> 1]
NoCall == [name |-> "new", n |-> 0, fail |-> FALSE, ret |-> "ok"]
\* the values of alpha tried: the smallest, the largest below 1, and 1
Alphas == {1, AlphaDen - 1, AlphaDen}
ZPIdle == [self |-> Mono(0), other |-> Mono(0), out |-> Unset]
StageIdle == [kind |-> "none"]

\* --------------------------------------- actions of the smoothing stage
InitES ==
    /\ es \in { ES_new(src, N, a) :
                  src \in Sources, N \in 0..MaxSeekBack, a \in Alphas }
    /\ es_op = [name |-> "new", n |-> 0, fail |-> FALSE, ret |-> "ok",
                before |-> <<>>, pure |-> TRUE, pticks |-> 0]
    /\ es_emitted = <<>>
    /\ sf = SFIdle /\ sf_op = NoCall /\ sf_count = 0
    /\ zp = ZPIdle
    /\ stage = StageIdle /\ stage_op = NoCall

\* the last call was a next_frame that returned a frame
TickSome == es_op.name = "next_frame" /\ es_op.ret = "some"
\* the history flags of the call being made
ESPure == es_op.name = "new" \/ (es_op.pure /\ TickSome)
ESTicks == IF TickSome THEN es_op.pticks + 1 ELSE 0

\* a caller calls next_frame
ESNextFrame ==
    /\ es_op.ret # "panic"
    /\ Len(es_emitted) < MaxTicks
    /\ \E fail \in BOOLEAN :
        LET r == ES_next_frame(es, fail) IN
        /\ es' = r.st
        /\ es_op' = [name |-> "next_frame", n |-> 0, fail |-> fail, ret |-> r.ret,
                     before |-> es, pure |-> ESPure, pticks |-> ESTicks]
        /\ es_emitted' = es_emitted \o r.outs
    /\ UNCHANGED <<sfVars, zpVars, stVars>>

\* a caller calls seek_frame(n)
ESSeekFrame ==
    /\ es_op.ret # "panic"
    /\ Len(es_emitted) < MaxTicks
    /\ \E n \in (-MaxSeek)..MaxSeek, fail \in BOOLEAN :
        LET r == ES_seek_frame(es, n, fail) IN
        /\ es' = r.st
        /\ es_op' = [name |-> "seek_frame", n |-> n, fail |-> fail, ret |-> r.ret,
                     before |-> es, pure |-> ESPure, pticks |-> ESTicks]
        /\ es_emitted' = es_emitted \o r.outs
    /\ UNCHANGED <<sfVars, zpVars, stVars>>

NextES == ESNextFrame \/ ESSeekFrame
SpecES == InitES /\ [][NextES]_vars

\* ------------------------------------------- claims: exponential smoothing
\* the frame the source handed to the last next_frame call
ESInput == SrcFrame(es_op.before.source, es_op.before.source.pos)
\* out = alpha * prev + (1 - alpha) * in, on numerators, without division
IsBlend(a, out, prev, in) == out * AlphaDen = a * prev + (AlphaDen - a) * in
IsBlendElem(a, out, prev, in) ==
    /\ out[1] = in[1] /\ out[1] = prev[1]
    /\ \A c \in 2..Len(out) : IsBlend(a, out[c], prev[c], in[c])
IsBlendFrame(a, out, prev, in) ==
    /\ Len(out) = Len(in) /\ Len(prev) = Len(in)
    /\ \A i \in 1..Len(in) : IsBlendElem(a, out[i], prev[i], in[i])

(* C1: every next_frame call that returns a frame and is not the first to  *)
(* do so returns, at every bin and channel, alpha * p + (1 - alpha) * (the *)
(* source's frame), where p is the stage's current frame before the call;  *)
(* and when the call before was itself a next_frame that returned a frame, *)
(* p is that frame: the stage's own last output.                           *)
C1_BlendOfOwnLastOutput ==
    (TickSome /\ Len(es_emitted) >= 2) =>
        /\ es.cur = es_emitted[Len(es_emitted)]
        /\ IsBlendFrame(es.alpha, es.cur, es_op.before.cur, ESInput)
        /\ es_op.pticks >= 1 =>
             IsBlendFrame(es.alpha, es.cur, es_emitted[Len(es_emitted) - 1], ESInput)
\* a second tick right after the first, alpha below 1, Stereo, and an
\* output that is neither the input nor the previous output
C1_Witness ==
    /\ TickSome /\ Len(es_emitted) = 2 /\ es_op.pticks = 1
    /\ es.alpha = 1 /\ IsStereo(es.cur[1])
    /\ es.cur # ESInput /\ es.cur # es_emitted[1]

(* C2: the first frame the stage returns is the source's frame, element    *)
(* for element, for every alpha and for Mono and Stereo.                   *)
C2_FirstTickIsRaw ==
    /\ (TickSome /\ Len(es_emitted) = 1) => (es.cur = ESInput /\ es_emitted[1] = ESInput)
    /\ es_emitted # <<>> => es_emitted[1] = SrcFrame(es.source, 0)
C2_Witness ==
    /\ TickSome /\ Len(es_emitted) = 1 /\ es.alpha = 1
    /\ IsStereo(es.cur[2]) /\ es.cur[2][2] > 0

(* C3: with seek-back limit 1, after exactly two next_frame calls that     *)
(* returned a frame (on a source with room to seek to position 1),         *)
(* seek_frame(-1) succeeds, the current frame is the frame of tick 1 and   *)
(* that frame has left the history.                                        *)
C3_SeekBackOneRestores ==
    ( /\ es_op.name = "seek_frame" /\ es_op.n = -1 /\ ~es_op.fail
      /\ es_op.pure /\ es_op.pticks = 2 /\ es.n_prev = 1
      /\ ES_num_full_frames(es_op.before) > 1 ) =>
        /\ es_op.ret = "ok"
        /\ es.cur = es_emitted[1]
        /\ es.previous = <<>>

(* C4: seek_frame(n) with n < 0 and |n| above the number of frames in the  *)
(* history returns an error, never panics, and changes nothing.            *)
C4_SeekBackTooFarIsError ==
    ( /\ es_op.name = "seek_frame" /\ es_op.n < 0
      /\ -es_op.n > Len(es_op.before.previous) ) =>
        /\ es_op.ret = "err"
        /\ es = es_op.before

(* C5: a seek_frame(n), n > 0, that succeeds leaves the current frame, the *)
(* history, the position counter at (and so num_frames_remain and the end  *)
(* check at = num_frames) as n next_frame calls leave them.                *)
ESAfterTicks == ES_replay(es_op.before, es_op.n, FALSE).st
C5_SeekForwardIsReplay ==
    (es_op.name = "seek_frame" /\ es_op.n > 0 /\ es_op.ret = "ok") =>
        /\ es.cur = ESAfterTicks.cur
        /\ es.previous = ESAfterTicks.previous
        /\ es.at = ESAfterTicks.at
        /\ ES_num_frames_remain(es) = ES_num_frames_remain(ESAfterTicks)
        /\ (es.at = ES_num_frames(es)) = (ESAfterTicks.at = ES_num_frames(ESAfterTicks))

\* v is w with some elements left out
RECURSIVE IsSubSeq(_, _)
IsSubSeq(v, w) ==
    IF v = <<>> THEN TRUE
    ELSE IF w = <<>> THEN FALSE
    ELSE IF v[1] = w[1] THEN IsSubSeq(Tail(v), Tail(w)) \/ IsSubSeq(v, Tail(w))
    ELSE IsSubSeq(v, Tail(w))
Reverse(w) == [i \in 1..Len(w) |-> w[Len(w) + 1 - i]]

(* C6: for every seek-back limit N >= 0 the history holds at most N        *)
(* frames, newest first, each one a frame the stage returned before, and   *)
(* the push of next_frame never fails.                                     *)
C6_HistoryBounded ==
    /\ Len(es.previous) <= es.n_prev
    /\ IsSubSeq(es.previous, Reverse(es_emitted))
    /\ es_op.name = "next_frame" => es_op.ret # "panic"

\* ------------------------------------------------------- the sample source
(* WavFile as a Samples source: num_samples samples and the position       *)
(* sample_at.  Sample i is modelled by its position i, so a frame shows    *)
(* which samples it holds.  `fail`: the file operation returns an error.   *)
Wav_num_samples(w) == w.num_samples
Wav_num_samples_remain(w) == w.num_samples - w.sample_at
Wav_does_sample_exist(w, sample) == sample >= 0 /\ sample < Wav_num_samples(w)

Wav_next_sample(w, fail) ==
    IF Wav_num_samples_remain(w) = 0 THEN [src |-> w, ret |-> "none", v |-> 0]
    ELSE IF fail THEN [src |-> w, ret |-> "err", v |-> 0]
    ELSE [src |-> [w EXCEPT !.sample_at = @ + 1], ret |-> "some", v |-> w.sample_at]

Wav_seek_samples(w, n, fail) ==
    LET new_sample_at == w.sample_at + n IN
    IF Wav_does_sample_exist(w, new_sample_at)
    THEN IF fail THEN [src |-> w, ret |-> "err"]
         ELSE [src |-> [w EXCEPT !.sample_at = new_sample_at], ret |-> "ok"]
    ELSE [src |-> w, ret |-> "ok"]

\* ------------------------------------------------------------ SlidingFrame
SlidingFrame_new(source, size, stride) ==
    [source |-> source, buf |-> <<>>, cur_buf |-> <<>>, size |-> size,
     stride |-> IF stride = 0 THEN 1 ELSE stride]

\* the take(n_load) loop of ensure_buf_filled: k samples are left to load;
\* `fail`: the next next_sample returns an error, which ends the loading
RECURSIVE SlidingFrame_load(_, _, _)
SlidingFrame_load(s, k, fail) ==
    IF k = 0 THEN [st |-> s, ret |-> "ok"]
    ELSE LET r == Wav_next_sample(s.source, fail) IN
         IF r.ret = "err" THEN [st |-> s, ret |-> "err"]
         ELSE IF r.ret = "none" THEN [st |-> s, ret |-> "ok"]
         ELSE SlidingFrame_load([s EXCEPT !.source = r.src, !.buf = Append(@, r.v)], k - 1, FALSE)

SlidingFrame_ensure_buf_filled(s, fail) ==
    LET n_load == Min(Wav_num_samples_remain(s.source), s.size - Len(s.buf)) IN
    IF n_load = 0 THEN [st |-> s, ret |-> "ok"]
    ELSE SlidingFrame_load(s, n_load, fail)

\* next_frame: the object after the call, the outcome and the frame
SlidingFrame_next_frame(s, fail) ==
    IF s.buf # <<>> /\ Len(s.buf) < s.stride
    THEN [st |-> [s EXCEPT !.buf = <<>>], ret |-> "none", frame |-> <<>>]
    ELSE
    LET s1 == IF s.buf # <<>> THEN [s EXCEPT !.buf = VecDrain(@, 0, s.stride)] ELSE s
        r == SlidingFrame_ensure_buf_filled(s1, fail)
    IN
    IF r.ret = "err" THEN [st |-> r.st, ret |-> "err", frame |-> <<>>]
    ELSE IF r.st.buf = <<>> THEN [st |-> r.st, ret |-> "none", frame |-> <<>>]
    ELSE [st |-> [r.st EXCEPT !.cur_buf = r.st.buf], ret |-> "some", frame |-> r.st.buf]

SlidingFrame_seek_frame(s, n, fail) ==
    LET buf_len == Len(s.buf)
        s1 == IF n < 0
              THEN LET to_remove == Min(buf_len, -n)
                       first_remove == buf_len - to_remove
                   IN [s EXCEPT !.buf = VecDrain(@, first_remove, buf_len)]
              ELSE IF n > 0
              THEN LET to_remove == Min(buf_len, n)
                   IN [s EXCEPT !.buf = VecDrain(@, 0, to_remove)]
              ELSE s
        r == Wav_seek_samples(s1.source, n, fail)
    IN [st |-> [s1 EXCEPT !.source = r.src], ret |-> r.ret]

SlidingFrame_num_frames(s) == Wav_num_samples(s.source) \div s.stride
SlidingFrame_num_full_frames(s) ==
    LET samples == Wav_num_samples(s.source)
        non_full_samples == s.size - 1
    IN IF non_full_samples > samples THEN 0
       ELSE (samples - non_full_samples) \div s.stride

\* n successive next_frame calls, none failing
RECURSIVE SlidingFrame_replay(_, _)
SlidingFrame_replay(s, n) == IF n = 0 THEN s ELSE SlidingFrame_replay(SlidingFrame_next_frame(s, FALSE).st, n - 1)

\* ---------------------------------------- actions of the sliding framer
InitSF ==
    /\ sf \in { SlidingFrame_new([num_samples |-> N, sample_at |-> 0], size, stride) :
                  N \in 0..MaxSamples, size \in 1..MaxSize, stride \in 0..MaxStride }
    /\ sf_op = [name |-> "new", n |-> 0, fail |-> FALSE, ret |-> "ok",
                before |-> <<>>, pure |-> TRUE, full |-> 0,
                ended |-> FALSE, ended_before |-> FALSE]
    /\ sf_count = 0
    /\ es = ES_new([len |-> 0, full |-> 0, chans |-> <<>>, pos |-> 0], 0, 1)
    /\ es_op = NoCall /\ es_emitted = <<>>
    /\ zp = ZPIdle
    /\ stage = StageIdle /\ stage_op = NoCall

\* every call so far was a next_frame that did not fail
SFPure == sf_op.pure /\ sf_op.name \in {"new", "next_frame"} /\ sf_op.ret # "err"

\* a caller calls next_frame
SFNextFrame ==
    /\ sf_count < MaxTicks
    /\ \E fail \in BOOLEAN :
        LET r == SlidingFrame_next_frame(sf, fail) IN
        /\ sf' = r.st
        /\ sf_op' = [name |-> "next_frame", n |-> 0, fail |-> fail, ret |-> r.ret,
                     before |-> sf, pure |-> SFPure,
                     full |-> IF r.ret = "some" /\ Len(r.frame) = sf.size
                              THEN sf_op.full + 1 ELSE sf_op.full,
                     ended |-> sf_op.ended \/ r.ret = "none",
                     ended_before |-> sf_op.ended]
        /\ sf_count' = IF r.ret = "some" THEN sf_count + 1 ELSE sf_count
    /\ UNCHANGED <<esVars, zpVars, stVars>>

\* a caller calls seek_frame(n)
SFSeekFrame ==
    /\ sf_count < MaxTicks
    /\ \E n \in (-MaxSeek)..MaxSeek, fail \in BOOLEAN :
        LET r == SlidingFrame_seek_frame(sf, n, fail) IN
        /\ sf' = r.st
        /\ sf_op' = [name |-> "seek_frame", n |-> n, fail |-> fail, ret |-> r.ret,
                     before |-> sf, pure |-> SFPure, full |-> sf_op.full,
                     ended |-> FALSE, ended_before |-> sf_op.ended]
        /\ sf_count' = sf_count
    /\ UNCHANGED <<esVars, zpVars, stVars>>

NextSF == SFNextFrame \/ SFSeekFrame
SpecSF == InitSF /\ [][NextSF]_vars

\* ------------------------------------------------------- claims: sliding
\* the last call was a next_frame that returned a frame: it is cur_buf
SFTickSome == sf_op.name = "next_frame" /\ sf_op.ret = "some"

(* C7: every frame next_frame returns has exactly `size` elements.         *)
C7_FramesAreFullSize ==
    SFTickSome => Len(sf.cur_buf) = sf.size

\* the samples at positions a .. a + n - 1
Samples(a, n) == [i \in 1..n |-> a + i - 1]

(* C8: over a run of next_frame calls alone, none failing, the k-th frame  *)
(* returned (k from 0) is the samples k*stride .. k*stride + size - 1, for *)
(* every k with k*stride + size <= N.                                      *)
C8_KthFrameIsKthWindow ==
    (SFPure /\ SFTickSome) =>
        LET k == sf_count - 1 IN
        k * sf.stride + sf.size <= Wav_num_samples(sf.source) =>
            sf.cur_buf = Samples(k * sf.stride, sf.size)

\* each of n successive next_frame calls returns a frame of full size
RECURSIVE SFAllSome(_, _)
SFAllSome(s, n) ==
    \/ n = 0
    \/ LET r == SlidingFrame_next_frame(s, FALSE) IN
       r.ret = "some" /\ Len(r.frame) = s.size /\ SFAllSome(r.st, n - 1)

(* C9: after a seek_frame(n), n > 0, that succeeds where n + 1 next_frame  *)
(* calls would each return a full frame, the next frame returned is the    *)
(* one                                                                     *)
(* returned by the (n+1)-th of these calls (which the same buffer and      *)
(* source position would give).                                            *)
C9_SeekForwardIsReplay ==
    ( /\ sf_op.name = "seek_frame" /\ sf_op.n > 0 /\ sf_op.ret = "ok"
      /\ SFAllSome(sf_op.before, sf_op.n + 1) ) =>
        LET seeked == SlidingFrame_next_frame(sf, FALSE)
            ticked == SlidingFrame_next_frame(
                          SlidingFrame_replay(sf_op.before, sf_op.n), FALSE)
        IN seeked.ret = ticked.ret /\ seeked.frame = ticked.frame

\* ------------------------------------------------- actions: Channeled::zip
ChanneledValues ==
    { Mono(v) : v \in 0..MaxValue } \cup { Stereo(a, b) : a, b \in 0..MaxValue }

InitZip ==
    /\ zp \in { [self |-> a, other |-> b, out |-> Unset] :
                  a, b \in ChanneledValues }
    /\ es = ES_new([len |-> 0, full |-> 0, chans |-> <<>>, pos |-> 0], 0, 1)
    /\ es_op = NoCall /\ es_emitted = <<>>
    /\ sf = SFIdle /\ sf_op = NoCall /\ sf_count = 0
    /\ stage = StageIdle /\ stage_op = NoCall

\* a caller zips the two operands
ZipCall ==
    /\ zp.out = Unset
    /\ zp' = [zp EXCEPT !.out = Channeled_zip(zp.self, zp.other)]
    /\ UNCHANGED <<esVars, sfVars, stVars>>

NextZip == ZipCall
SpecZip == InitZip /\ [][NextZip]_vars

\* ----------------------------------------------------------- claims: zip
(* C10: zip returns the paired value exactly when both operands have the   *)
(* same variant (Mono of the pair; Stereo of the left pair and the right   *)
(* pair), and no value when one is Mono and the other Stereo.              *)
C10_ZipPairsSameVariant ==
    zp.out # Unset =>
        LET a == zp.self
            b == zp.other
        IN
        /\ (zp.out # None) = (a[1] = b[1])
        /\ a[1] # b[1] => zp.out = None
        /\ (IsMono(a) /\ IsMono(b)) => zp.out = Some(Mono(<<a[2], b[2]>>))
        /\ (IsStereo(a) /\ IsStereo(b)) =>
             zp.out = Some(Stereo(<<a[2], b[2]>>, <<a[3], b[3]>>))
\* a Mono zipped with a Stereo gave no value
C10_Witness == IsMono(zp.self) /\ IsStereo(zp.other) /\ zp.out = None

\* ================================================================ stages
\* The frame mappers.  One of them is under test at a time; `stage` holds
\* it and `stage_op` the last call.  An f64 is an integer here unless a
\* section says otherwise; the outcome of map is "some" (a frame), "none",
\* "err" or "panic".

\* ------------------------------------------------ Channeled::map, try_map
\* the channels of a channeled value, as positions of its tuple
Channels(e) == IF IsStereo(e) THEN {2, 3} ELSE {2}

\* Channeled::map: the closure applied to every channel, the variant kept;
\* f[ch] is what the closure gives for the channel at position ch
Channeled_map(c, f) ==
    IF IsStereo(c) THEN Stereo(f[2], f[3]) ELSE Mono(f[2])

\* Channeled::try_map: the closure gives [ok, v] for a channel; the first
\* failure is returned and the closure is not applied to the channel
\* after it
Channeled_try_map(c, f) ==
    IF IsStereo(c)
    THEN LET a == f[2] IN
         IF ~a.ok THEN [ok |-> FALSE, v |-> <<>>]
         ELSE LET b == f[3] IN
              IF ~b.ok THEN [ok |-> FALSE, v |-> <<>>]
              ELSE [ok |-> TRUE, v |-> Stereo(a.v, b.v)]
    ELSE LET a == f[2] IN
         IF ~a.ok THEN [ok |-> FALSE, v |-> <<>>]
         ELSE [ok |-> TRUE, v |-> Mono(a.v)]

\* Channeled<Option<T>>::flatten_option, an Option being Some(x) or None
Channeled_flatten_option(c) ==
    IF IsStereo(c)
    THEN IF c[2] # None /\ c[3] # None
         THEN Some(Stereo(c[2][2], c[3][2])) ELSE None
    ELSE IF c[2] # None THEN Some(Mono(c[2][2])) ELSE None

\* the variant of a channeled value
Variant(c) == c[1]
\* every sequence over S of length lo..hi
SeqsOf(S, lo, hi) == UNION { [1..k -> S] : k \in lo..hi }

\* ------------------------------------------------------------- FramedFft
MaxFftSize == 3     \* largest input size (cap) of the spectral stage

\* the elements a frame given to the spectral stage or to the wrapper is
\* made of
StageElems == {Mono(1), Stereo(1, 2)}

\* Bufs::new: the input buffer of in_size zeros, no output yet
Bufs_new(in_size) ==
    [input |-> [i \in 1..in_size |-> 0], real_output |-> <<>>]

\* FramedFft::new.  The plan is the FFTW plan for cap points.
FramedFft_new(cap) ==
    [plan |-> cap, bufs |-> None, out |-> <<>>,
     n_out |-> cap \div 2, n_in |-> cap]

\* The magnitude of bin k of the real-to-complex transform of an input
\* buffer.  The transform is FFTW's; the model keeps its result symbolic.
Norm(input, k) == <<"norm", k, input>>

\* the loop of consume_input from element idx (1-based) on: each element
\* is written to the buffer(s) of its variant, the first element of the
\* other variant ends the call with an error and leaves the earlier writes
RECURSIVE consume_elems(_, _, _)
consume_elems(bufs, input, idx) ==
    IF idx > Len(input) THEN [ret |-> "ok", bufs |-> bufs]
    ELSE LET elem == input[idx] IN
         IF Variant(elem) # Variant(bufs)
         THEN [ret |-> "err", bufs |-> bufs]
         ELSE IF idx > Len(bufs[2].input)
         THEN [ret |-> "panic", bufs |-> bufs]
         ELSE IF IsStereo(elem)
         THEN consume_elems(
                  Stereo([bufs[2] EXCEPT !.input[idx] = elem[2]],
                         [bufs[3] EXCEPT !.input[idx] = elem[3]]),
                  input, idx + 1)
         ELSE consume_elems(Mono([bufs[2] EXCEPT !.input[idx] = elem[2]]),
                            input, idx + 1)

\* a fill_rest_zero that leaves the rest of the buffer as it was
fill_rest_zero_none(input_len, buf) == buf

\* fill_rest_zero: zeros from input_len (0-based) to the end of the buffer
fill_rest_zero(input_len, buf) ==
    [buf EXCEPT !.input =
        [i \in 1..Len(buf.input) |->
            IF i > input_len THEN 0 ELSE buf.input[i]]]

\* a consume_input that writes every element to the buffers it has,
\* whatever the element's variant
consume_input_any(bufs, input) ==
    LET at(i, c) == IF i > Len(input) THEN 0
                    ELSE IF IsStereo(input[i]) THEN input[i][c]
                    ELSE input[i][2]
        fill(buf, c) == [buf EXCEPT !.input =
                            [i \in 1..Len(buf.input) |-> at(i, c)]]
    IN [ret |-> "ok",
        bufs |-> IF IsStereo(bufs)
                 THEN Stereo(fill(bufs[2], 2), fill(bufs[3], 3))
                 ELSE Mono(fill(bufs[2], 2))]

consume_input(bufs, input) ==
    LET c == consume_elems(bufs, input, 1) IN
    IF c.ret # "ok" THEN c
    ELSE [ret |-> "ok",
          bufs |-> Channeled_map(c.bufs,
                       [ch \in Channels(c.bufs) |->
                            fill_rest_zero(Len(input), c.bufs[ch])])]

\* a perform_transform_once that keeps the first output bin as well
perform_transform_once_dc(plan, buf) ==
    [buf EXCEPT !.real_output =
        [k \in 1..(plan \div 2 + 1) |-> Norm(buf.input, k - 1)]]

\* perform_transform_once: the plan runs on the input buffer (its sizes
\* are those the plan was made for, so r2c does not fail) and real_output
\* gets the magnitude of every output bin but the first
perform_transform_once(plan, buf) ==
    [buf EXCEPT !.real_output =
        [k \in 1..(plan \div 2) |-> Norm(buf.input, k)]]

\* zip_stereo_output emitting the left channel alone
zip_stereo_output_left(a, b) ==
    [idx \in 1..Len(a.real_output) |-> Mono(a.real_output[idx])]

zip_stereo_output(a, b) ==
    [idx \in 1..Len(a.real_output) |->
        Stereo(a.real_output[idx], b.real_output[idx])]

\* zip_mono_output: real_output is drained into the frame
zip_mono_output(v) ==
    [idx \in 1..Len(v.real_output) |-> Mono(v.real_output[idx])]

\* perform_transform: the buffers after the call and the frame
perform_transform(bufs, plan) ==
    IF IsStereo(bufs)
    THEN LET a == perform_transform_once(plan, bufs[2])
             b == perform_transform_once(plan, bufs[3])
         IN [bufs |-> Stereo(a, b), to |-> zip_stereo_output(a, b)]
    ELSE LET v == perform_transform_once(plan, bufs[2])
         IN [bufs |-> Mono([v EXCEPT !.real_output = <<>>]),
             to |-> zip_mono_output(v)]

\* FramedFft::map
FramedFft_map(f, input) ==
    IF f.bufs = None /\ Len(input) = 0
    THEN [st |-> f, ret |-> "panic", frame |-> <<>>]
    ELSE
    LET bufs == IF f.bufs # None THEN f.bufs[2]
                ELSE IF IsStereo(input[1])
                THEN Stereo(Bufs_new(f.n_in), Bufs_new(f.n_in))
                ELSE Mono(Bufs_new(f.n_in))
        c == consume_input(bufs, input)
    IN IF c.ret # "ok"
       THEN [st |-> [f EXCEPT !.bufs = Some(c.bufs)],
             ret |-> c.ret, frame |-> <<>>]
       ELSE LET t == perform_transform(c.bufs, f.plan) IN
            [st |-> [f EXCEPT !.bufs = Some(t.bufs), !.out = t.to],
             ret |-> "some", frame |-> t.to]

FramedFft_map_frame_size(f, orig) == f.n_out

\* ---------------------------------------------------------------- Binner
\* An f64 of the binning stage is finite, <<"fin", num, den>> for the
\* exact value num/den, or not finite.  Frequencies are whole numbers of
\* Hz and gamma is the fraction gamma_num/gamma_den; the search is
\* computed in exact arithmetic (the rounding of f64 is not modelled).
MaxBins == 3        \* largest desired bin count
MaxInputSize == 4   \* largest input frame length of the binning stage
MaxHz == 3          \* largest fmin; fmax goes one further
MaxGamma == 2       \* gamma is g or 1/g for g in 1..MaxGamma
MaxNumBins == 6     \* no search is retried with more bins than this

Fin(n, d) == <<"fin", n, d>>
NaN == <<"nan">>
is_finite(x) == x[1] = "fin"

\* BinConfig with a validated configuration: more than one bin, fmin below
\* fmax, gamma positive (validate_config).  The sample rate makes a source
\* bin 1 Hz or 2 Hz wide.
BinConfigs ==
    { c \in [bins : 2..MaxBins, input_size : 1..MaxInputSize,
             sample_rate : { 2 * n : n \in 1..(2 * MaxInputSize) },
             fmin : 1..MaxHz, fmax : 2..(MaxHz + 1),
             gamma_num : 1..MaxGamma, gamma_den : 1..MaxGamma] :
        /\ c.fmin < c.fmax
        /\ c.sample_rate \in {2 * c.input_size, 4 * c.input_size}
        /\ (c.gamma_num = 1 \/ c.gamma_den = 1) }

\* hz_for_idx(i) < fmin, hz_for_idx(i) being i * (sample_rate / 2) /
\* input_size
hz_below_fmin(c, i) == i * c.sample_rate < c.fmin * 2 * c.input_size

\* round(((f_start - fmin) / freq_range) ^ (1 / gamma) * n_bins) >= b,
\* for f_start >= fmin: round is to nearest, halves away from zero, so
\* the rounded value reaches b >= 1 exactly when the value reaches b - 1/2
bin_idx_reaches(c, num_bins, i, b) ==
    LET xn == i * c.sample_rate - c.fmin * 2 * c.input_size
        xd == (c.fmax - c.fmin) * 2 * c.input_size
    IN b <= 0 \/
       Pow(2 * num_bins, c.gamma_num) * Pow(xn, c.gamma_den) >=
           Pow(2 * b - 1, c.gamma_num) * Pow(xd, c.gamma_den)

\* bin_idx after the clamp to num_bins
bin_idx_of(c, num_bins, i) ==
    CHOOSE b \in 0..num_bins :
        /\ bin_idx_reaches(c, num_bins, i, b)
        /\ (b = num_bins \/ ~bin_idx_reaches(c, num_bins, i, b + 1))

\* the scan of compute_bin_indexes from source index i on; out[b + 1] is
\* the entry of bin b
RECURSIVE bin_scan(_, _, _, _)
bin_scan(c, num_bins, out, i) ==
    IF i >= c.input_size THEN out
    ELSE IF hz_below_fmin(c, i) THEN bin_scan(c, num_bins, out, i + 1)
    ELSE LET b == bin_idx_of(c, num_bins, i)
             is_last == b = num_bins
             o == IF out[b + 1] = None \/ out[b + 1][2] > i
                  THEN [out EXCEPT ![b + 1] = Some(i)] ELSE out
         IN IF is_last THEN o ELSE bin_scan(c, num_bins, o, i + 1)

\* the entries that are present, in order, from entry idx (1-based) on
RECURSIVE fin_out_from(_, _)
fin_out_from(out, idx) ==
    IF idx > Len(out) THEN <<>>
    ELSE IF out[idx] = None THEN fin_out_from(out, idx + 1)
    ELSE <<out[idx][2]>> \o fin_out_from(out, idx + 1)

\* an absent entry after a present one
has_gap(out) ==
    \E a, b \in 1..Len(out) : a < b /\ out[a] # None /\ out[b] = None

\* One activation of compute_bin_indexes(config, num_bins): "ok" with the
\* table, "retry" when it calls itself with num_bins + 1, or "panic".
\* `checked` says whether the build checks arithmetic overflow: with no
\* entry at all, fin_out.len() - 1 panics when it does and wraps to the
\* largest usize when it does not, and the empty table is returned.
compute_bin_indexes(c, num_bins, checked) ==
    LET out == bin_scan(c, num_bins, [b \in 1..(num_bins + 1) |-> None], 0)
        fin_out == fin_out_from(out, 1)
    IN IF has_gap(out) THEN [ret |-> "panic", table |-> <<>>]
       ELSE IF fin_out = <<>>
       THEN IF checked THEN [ret |-> "panic", table |-> <<>>]
            ELSE [ret |-> "ok", table |-> <<>>]
       ELSE IF Len(fin_out) - 1 < c.bins
       THEN [ret |-> "retry", table |-> <<>>]
       ELSE [ret |-> "ok", table |-> fin_out]

\* compute_bin_sizes
compute_bin_sizes(indexes) ==
    [j \in 1..(Len(indexes) - 1) |-> indexes[j + 1] - indexes[j]]

\* Binner::new once compute_bin_indexes returned the table.  With an empty
\* table indexes.len() - 1 panics or wraps, and the allocation of that
\* many outputs panics.
Binner_new(c, indexes) ==
    IF indexes = <<>> THEN [ret |-> "panic", st |-> <<>>]
    ELSE [ret |-> "ok",
          st |-> [bufs |-> [j \in 1..(Len(indexes) - 1) |-> <<>>],
                  out_buf |-> <<>>, indexes |-> indexes,
                  n_bins |-> Len(indexes) - 1, in_size |-> c.input_size]]

\* the sum of a vector of finite values with denominator 1
RECURSIVE SumFrom(_, _)
SumFrom(v, idx) ==
    IF idx > Len(v) THEN 0 ELSE v[idx][2] + SumFrom(v, idx + 1)
SumFin(v) == SumFrom(v, 1)

\* aggregate_bufs with every sum divided by the number of values summed
aggregate_bufs_mean(b) ==
    [b EXCEPT !.out_buf = [j \in 1..Len(b.bufs) |->
                              IF b.bufs[j] = <<>> THEN Fin(0, b.in_size)
                              ELSE Fin(SumFin(b.bufs[j]), Len(b.bufs[j]))],
              !.bufs = [j \in 1..Len(b.bufs) |-> <<>>]]

\* aggregate_bufs summing the buffers without draining them
aggregate_bufs_keeping(b) ==
    [b EXCEPT !.out_buf = [j \in 1..Len(b.bufs) |->
                              Fin(SumFin(b.bufs[j]), b.in_size)]]

\* Binner::aggregate_bufs: every buffer drained, its sum over in_size
aggregate_bufs(b) ==
    [b EXCEPT !.out_buf = [j \in 1..Len(b.bufs) |->
                              Fin(SumFin(b.bufs[j]), b.in_size)],
              !.bufs = [j \in 1..Len(b.bufs) |-> <<>>]]

\* the loop of Binner::map from source index idx (0-based) on
RECURSIVE binner_walk(_, _, _, _)
binner_walk(b, input, idx, bin_idx) ==
    IF idx >= Len(input) THEN b
    ELSE IF idx < b.indexes[bin_idx + 1]
    THEN binner_walk(b, input, idx + 1, bin_idx)
    ELSE LET nb == IF idx >= b.indexes[bin_idx + 2]
                   THEN bin_idx + 1 ELSE bin_idx
             elem == input[idx + 1]
         IN IF nb >= b.n_bins THEN b
            ELSE binner_walk(
                     IF is_finite(elem)
                     THEN [b EXCEPT !.bufs[nb + 1] = Append(@, elem)]
                     ELSE b,
                     input, idx + 1, nb)

\* Binner::map
Binner_map(b, input) ==
    IF Len(input) # b.in_size
    THEN [st |-> b, ret |-> "none", frame |-> <<>>]
    ELSE LET a == aggregate_bufs(binner_walk(b, input, 0, 0))
         IN [st |-> a, ret |-> "some", frame |-> a.out_buf]

Binner_map_frame_size(b, orig) == b.n_bins

\* ------------------------------------------------- ChanneledMapperWrapper
\* ChanneledMapperWrapper::new; the mapper inside is the Binner
\* (Binner::into_channeled)
ChanneledMapperWrapper_new(mapper, in_size, out_size) ==
    [mapper |-> mapper, zip_buf |-> <<>>, out_bufs |-> None,
     in_bufs |-> None, in_size |-> in_size, out_size |-> out_size]

\* ChanneledIter: a Channeled of vectors read as a vector of Channeled;
\* a Stereo one ends with the shorter channel
ChanneledIter_collect(c) ==
    IF IsStereo(c)
    THEN [i \in 1..Min(Len(c[2]), Len(c[3])) |-> Stereo(c[2][i], c[3][i])]
    ELSE [i \in 1..Len(c[2]) |-> Mono(c[2][i])]

\* ChanneledMapperWrapper::map
ChanneledMapperWrapper_map(w, input) ==
    IF w.in_bufs = None /\ input = <<>>
    THEN [st |-> w, ret |-> "some", frame |-> <<>>]
    ELSE
    LET variant == IF w.in_bufs # None THEN Variant(w.in_bufs[2])
                   ELSE Variant(input[1])
        chan(c) == [i \in 1..Len(input) |-> input[i][c]]
        in_bufs == IF variant = "Stereo" THEN Stereo(chan(2), chan(3))
                   ELSE Mono(chan(2))
        out_old == IF w.out_bufs # None THEN w.out_bufs[2]
                   ELSE Channeled_map(in_bufs, [ch \in Channels(in_bufs) |-> <<>>])
        \* the mapper is called on the channels in turn
        m1 == Binner_map(w.mapper, in_bufs[2]).st
        m2 == IF variant = "Stereo" THEN Binner_map(m1, in_bufs[3]).st
              ELSE m1
        res == Channeled_try_map(in_bufs,
                   [ch \in Channels(in_bufs) |->
                        LET r == Binner_map(IF ch = 2 THEN w.mapper ELSE m1,
                                            in_bufs[ch]) IN
                        [ok |-> r.ret # "err",
                         v |-> IF r.ret = "some" THEN Some(r.frame)
                               ELSE None]])
        upd(old, r) == IF r # None THEN r[2] ELSE old
        out_bufs == IF variant = "Stereo"
                    THEN Stereo(upd(out_old[2], res.v[2]),
                                upd(out_old[3], res.v[3]))
                    ELSE Mono(upd(out_old[2], res.v[2]))
        zipped == ChanneledIter_collect(out_bufs)
    IN IF \E i \in 1..Len(input) : Variant(input[i]) # variant
       THEN [st |-> w, ret |-> "panic", frame |-> <<>>]
       ELSE IF ~res.ok
       THEN [st |-> [w EXCEPT !.in_bufs = Some(in_bufs),
                              !.out_bufs = Some(out_old)],
             ret |-> "err", frame |-> <<>>]
       ELSE IF Channeled_flatten_option(res.v) = None
       THEN [st |-> [w EXCEPT !.mapper = m2, !.in_bufs = Some(in_bufs),
                              !.out_bufs = Some(out_bufs)],
             ret |-> "none", frame |-> <<>>]
       ELSE [st |-> [w EXCEPT !.mapper = m2, !.in_bufs = Some(in_bufs),
                              !.out_bufs = Some(out_bufs),
                              !.zip_buf = zipped],
             ret |-> "some", frame |-> zipped]

ChanneledMapperWrapper_map_frame_size(w, orig) ==
    Binner_map_frame_size(w.mapper, orig)

\* MappedFramed::full_frame_size: the mapper's map_frame_size of the
\* source's full_frame_size
MappedFramed_full_frame_size(kind, mapper, source_size) ==
    CASE kind = "fft" -> FramedFft_map_frame_size(mapper, source_size)
      [] kind = "bin" ->
             ChanneledMapperWrapper_map_frame_size(mapper, source_size)
      [] OTHER -> source_size

\* -------------------------------------------------------- Savitzky-Golay
\* A Rational64 is <<numerator, denominator>> in lowest terms with a
\* positive denominator.  A division by zero panics in the code; here it
\* gives Invalid, which every later operation hands on, so a computation
\* that panicked ends with Invalid in its result.  The overflow of i64 is
\* not modelled.  The f64 values of a frame are exact rationals as well.
MaxHalfWindow == 2  \* the window sizes are 2m + 1 for m in 1..MaxHalfWindow
MaxDegree == 3      \* largest polynomial degree
MaxSGSize == 5      \* largest frame length of the smoothing stage

Abs(a) == IF a < 0 THEN -a ELSE a
RECURSIVE GCD(_, _)
GCD(a, b) == IF b = 0 THEN a ELSE GCD(b, a % b)

Invalid == <<0, 0>>
IsInvalid(r) == r[2] = 0
\* Ratio::new: the fraction n/d reduced
Ratio(n, d) ==
    IF d = 0 THEN Invalid
    ELSE LET g == GCD(Abs(n), Abs(d))
             sgn == IF d < 0 THEN -1 ELSE 1
         IN <<sgn * (n \div g), sgn * (d \div g)>>
RInt(n) == <<n, 1>>
RAdd(a, b) == IF IsInvalid(a) \/ IsInvalid(b) THEN Invalid
              ELSE Ratio(a[1] * b[2] + b[1] * a[2], a[2] * b[2])
RSub(a, b) == IF IsInvalid(a) \/ IsInvalid(b) THEN Invalid
              ELSE Ratio(a[1] * b[2] - b[1] * a[2], a[2] * b[2])
RMul(a, b) == IF IsInvalid(a) \/ IsInvalid(b) THEN Invalid
              ELSE Ratio(a[1] * b[1], a[2] * b[2])
RDiv(a, b) == IF IsInvalid(a) \/ IsInvalid(b) THEN Invalid
              ELSE Ratio(a[1] * b[2], a[2] * b[1])

\* gram_poly(i, m, k, s); i, m, k and s are whole numbers
RECURSIVE gram_poly(_, _, _, _)
gram_poly(i, m, k, s) ==
    IF k > 0
    THEN LET r0 == gram_poly(i, m, k - 1, s)
             r1 == gram_poly(i, m, k - 1, s - 1)
             r2 == gram_poly(i, m, k - 2, s)
         IN RSub(RMul(RDiv(RInt(k * 4 - 2), RInt(k * (m * 2 - k + 1))),
                      RAdd(RMul(RInt(i), r0), RMul(RInt(s), r1))),
                 RMul(RDiv(RInt((k - 1) * (m * 2 + k)),
                           RInt(k * (m * 2 - k + 1))),
                      r2))
    ELSE IF k = 0 /\ s = 0 THEN RInt(1) ELSE RInt(0)

\* gen_fact(a, b): the product of the b whole numbers ending at a
RECURSIVE gen_fact_from(_, _)
gen_fact_from(j, a) == IF j > a THEN 1 ELSE j * gen_fact_from(j + 1, a)
gen_fact(a, b) == gen_fact_from((a - b) + 1, a)

\* weight(i, t, m, n, s): the sum over k in 0..n
RECURSIVE weight_from(_, _, _, _, _, _)
weight_from(k, i, t, m, n, s) ==
    IF k > n THEN RInt(0)
    ELSE LET fact0 == gen_fact(m * 2, k)
             fact1 == gen_fact(m * 2 + k + 1, k + 1)
             p0 == gram_poly(i, m, k, 0)
             p1 == gram_poly(t, m, k, s)
         IN RAdd(RMul(RMul(RMul(RInt(k * 2 + 1),
                                RDiv(RInt(fact0), RInt(fact1))),
                           p0),
                      p1),
                 weight_from(k + 1, i, t, m, n, s))
weight(i, t, m, n, s) == weight_from(0, i, t, m, n, s)

RECURSIVE RSumFrom(_, _)
RSumFrom(v, idx) ==
    IF idx > Len(v) THEN RInt(0) ELSE RAdd(v[idx], RSumFrom(v, idx + 1))
RSum(v) == RSumFrom(v, 1)

\* the weights of the taps from tap j (1-based) on, tap j being at the
\* offset j - 1 - m from the middle of the window
RECURSIVE fracs_from(_, _, _, _, _)
fracs_from(j, m, t, n, s) ==
    IF j > 2 * m + 1 THEN <<>>
    ELSE <<weight(j - 1 - m, t, m, n, s)>> \o fracs_from(j + 1, m, t, n, s)

\* every element of v divided by sum, from element idx on
RECURSIVE div_from(_, _, _)
div_from(v, sum, idx) ==
    IF idx > Len(v) THEN <<>>
    ELSE <<RDiv(v[idx], sum)>> \o div_from(v, sum, idx + 1)

\* weights(m, t, n, s): the row for time offset t, divided by its sum
weights(m, t, n, s) ==
    LET fracs == fracs_from(1, m, t, n, s)
        sum == RSum(fracs)
    IN div_from(fracs, sum, 1)

\* the rows from row r (1-based) on, row r being for the time offset
\* r - 1 - half_window_size
RECURSIVE rows_from(_, _, _)
rows_from(r, half_window_size, cfg) ==
    IF r > 2 * half_window_size + 1 THEN <<>>
    ELSE <<weights(half_window_size, r - 1 - half_window_size,
                   cfg.degree, cfg.order)>>
         \o rows_from(r + 1, half_window_size, cfg)

\* SavitzkyGolayConfig::compute_coefficients: "panic" for an even or too
\* small window and when a row could not be computed
compute_coefficients(cfg) ==
    IF cfg.window_size % 2 = 0 \/ cfg.window_size < 3
    THEN [ret |-> "panic", rows |-> <<>>]
    ELSE LET half_window_size == cfg.window_size \div 2
             rows == rows_from(1, half_window_size, cfg)
         IN IF \E r \in 1..Len(rows) : \E j \in 1..Len(rows[r]) :
                   IsInvalid(rows[r][j])
            THEN [ret |-> "panic", rows |-> <<>>]
            ELSE [ret |-> "ok", rows |-> rows]

\* SavitzkyGolayMapper::new, c being what config.compute_coefficients()
\* gave
SavitzkyGolayMapper_new(size, c) ==
    [ret |-> c.ret,
     st |-> [buf |-> <<>>, cap |-> size, coefficients |-> c.rows]]

\* SlidingWindow::next for the position `next` (0-based), window size
\* `window` and frame length `size`: the WindowPointer, start and end
\* 0-based and end exclusive.  When size - half_window - 1 is negative a
\* build that checks overflow panics at once; in a build that does not,
\* every position is at most half_window and takes the first branch.
SlidingWindow_next_shifted(window, size, next) ==
    LET half_window == window \div 2
        tail_at == (size - half_window) - 1
    IN IF next <= half_window
       THEN [start |-> 0, end |-> window, offset |-> next - half_window]
       ELSE IF next > tail_at
       THEN [start |-> size - window, end |-> size,
             offset |-> (next - tail_at) - 1]
       ELSE [start |-> next - half_window, end |-> next + half_window + 1,
             offset |-> 0]

SlidingWindow_next(window, size, next) ==
    LET half_window == window \div 2
        tail_at == (size - half_window) - 1
    IN IF next <= half_window
       THEN [start |-> 0, end |-> window, offset |-> next - half_window]
       ELSE IF next > tail_at
       THEN [start |-> size - window, end |-> size,
             offset |-> next - tail_at]
       ELSE [start |-> next - half_window, end |-> next + half_window + 1,
             offset |-> 0]

\* every WindowPointer the iterator SlidingWindow::new(window, size) yields
SlidingWindow_collect(window, size) ==
    [p \in 1..size |-> SlidingWindow_next(window, size, p - 1)]

\* multiply_rational_float
multiply_rational_float(ratio, float) ==
    RDiv(RMul(float, RInt(ratio[1])), RInt(ratio[2]))

Panicked == <<"Panicked">>

\* the fold of one window: the taps times the data, summed channel by
\* channel; Panicked when two elements of the window differ in variant
RECURSIVE sg_fold(_, _, _, _)
sg_fold(sum, data, row, j) ==
    IF j > Len(data) THEN sum
    ELSE LET next == Channeled_map(data[j],
                        [ch \in Channels(data[j]) |->
                             multiply_rational_float(row[j], data[j][ch])])
             z == Channeled_zip(sum, next)
         IN IF z = None THEN Panicked
            ELSE sg_fold(Channeled_map(z[2],
                                [ch \in Channels(z[2]) |->
                                     RAdd(z[2][ch][1], z[2][ch][2])]),
                         data, row, j + 1)

\* the new value of one position, always with the middle row
sg_point_center(buf, coefficients, win) ==
    IF win.end > Len(buf) \/ win.start < 0 THEN Panicked
    ELSE LET data == [j \in 1..(win.end - win.start) |-> buf[win.start + j]]
             row == coefficients[Len(coefficients) \div 2 + 1]
             first == Channeled_map(data[1],
                         [ch \in Channels(data[1]) |->
                              multiply_rational_float(row[1], data[1][ch])])
         IN sg_fold(first, data, row, 2)

\* the new value of one position: Panicked when the window does not fit
\* the frame or its elements differ in variant
sg_point(buf, coefficients, win) ==
    IF win.end > Len(buf) \/ win.start < 0 THEN Panicked
    ELSE LET data == [j \in 1..(win.end - win.start) |-> buf[win.start + j]]
             row == coefficients[win.offset + Len(coefficients) \div 2 + 1]
             first == Channeled_map(data[1],
                         [ch \in Channels(data[1]) |->
                              multiply_rational_float(row[1], data[1][ch])])
         IN sg_fold(first, data, row, 2)

\* the new values of the positions from p (1-based) on
RECURSIVE sg_points_from(_, _, _, _)
sg_points_from(buf, coefficients, wins, p) ==
    IF p > Len(buf) THEN <<>>
    ELSE <<sg_point(buf, coefficients, wins[p])>>
         \o sg_points_from(buf, coefficients, wins, p + 1)

\* a pass whose windows read the frame that is being overwritten
sg_source_in_place(buf, input) == input

\* the slice the windows of the pass are cut from: self.buf, the copy
sg_source(buf, input) == buf

\* the pass over the positions from p (1-based) on: input[p] is overwritten
\* with the new value of position p; a panic ends the pass at its position
RECURSIVE sg_pass(_, _, _, _, _)
sg_pass(buf, input, coefficients, wins, p) ==
    IF p > Len(input) THEN input
    ELSE LET v == sg_point(sg_source(buf, input), coefficients, wins[p])
             written == [input EXCEPT ![p] = v]
         IN IF v = Panicked THEN written
            ELSE sg_pass(buf, written, coefficients, wins, p + 1)

\* SavitzkyGolayMapper::map: self.buf is cleared and filled with the input
\* frame, then the pass overwrites the input frame
SavitzkyGolayMapper_map(s, input) ==
    LET wins == SlidingWindow_collect(Len(s.coefficients), Len(input))
        buf == SubSeq(s.buf, 1, 0) \o input
        out == sg_pass(buf, input, s.coefficients, wins, 1)
    IN IF \E p \in 1..Len(input) : out[p] = Panicked
       THEN [st |-> [s EXCEPT !.buf = buf], ret |-> "panic",
             frame |-> <<>>]
       ELSE [st |-> [s EXCEPT !.buf = buf], ret |-> "some",
             frame |-> out]

\* ------------------------------------------------------- actions: stages
StageNew == [name |-> "new", input |-> <<>>, ret |-> "ok", frame |-> <<>>,
             first |-> "unset"]

\* the smoothing configurations: the order is 0 (smoothing) or 1 (the
\* first derivative)
SGConfigs ==
    [window_size : { 2 * m + 1 : m \in 1..MaxHalfWindow },
     degree : 0..MaxDegree, order : {0, 1}]

\* the frames given to the binning stage, of the configured length n:
\* channel values 1, 2, 4, ... so that a sum tells which were summed, one
\* of them not finite; one frame that is too short; one of mixed variants
BinChannel(n, j) ==
    [i \in 1..n |-> IF i = j THEN NaN ELSE Fin(Pow(2, i - 1), 1)]
BinFrames(n) ==
    { [i \in 1..n |-> Mono(BinChannel(n, j)[i])] : j \in 0..n }
    \cup { [i \in 1..n |-> Stereo(BinChannel(n, j)[i],
                                  BinChannel(n, n + 1 - j)[i])] :
             j \in 0..n }
    \cup (IF n < 2 THEN {}
          ELSE { [i \in 1..(n - 1) |-> Mono(BinChannel(n, 0)[i])],
                 [i \in 1..n |-> IF i = 1 THEN Mono(BinChannel(n, 0)[i])
                                 ELSE Stereo(BinChannel(n, 0)[i], NaN)] })

\* the frames given to the smoothing stage, of length n: lines a * i + b
\* in one channel or in both, an impulse at either end, and one frame of
\* mixed variants
Line(a, b, n) == [i \in 1..n |-> RInt(a * (i - 1) + b)]
Impulse(j, n) == [i \in 1..n |-> RInt(IF i = j THEN 1 ELSE 0)]
SGFrames(n) ==
    { [i \in 1..n |-> Mono(Line(a, b, n)[i])] : a \in 0..2, b \in 0..1 }
    \cup { [i \in 1..n |-> Stereo(Line(a, b, n)[i],
                                  Line(b + 1, a, n)[i])] :
             a \in 0..2, b \in 0..1 }
    \cup { [i \in 1..n |-> Mono(Impulse(j, n)[i])] : j \in {1, n} }
    \cup (IF n < 2 THEN {}
          ELSE { [i \in 1..n |-> IF i = n THEN Mono(RInt(1))
                                 ELSE Stereo(RInt(1), RInt(1))] })

InitStage ==
    /\ \/ stage \in { [kind |-> "fft", status |-> "ready",
                       obj |-> FramedFft_new(cap)] : cap \in 1..MaxFftSize }
       \/ stage \in { [kind |-> "bin", status |-> "searching",
                       config |-> c, checked |-> ck, num_bins |-> c.bins,
                       obj |-> <<>>] : c \in BinConfigs, ck \in BOOLEAN }
       \/ stage \in { [kind |-> "sg", status |-> "new", config |-> c,
                       size |-> 0, obj |-> <<>>] : c \in SGConfigs }
    /\ stage_op = StageNew
    /\ es = ES_new([len |-> 0, full |-> 0, chans |-> <<>>, pos |-> 0], 0, 1)
    /\ es_op = NoCall /\ es_emitted = <<>>
    /\ sf = SFIdle /\ sf_op = NoCall /\ sf_count = 0
    /\ zp = ZPIdle

\* the spectral stage maps a frame of at most n_in elements (the frames of
\* the framer before it are never empty and never longer than its size)
FftMap ==
    /\ stage.kind = "fft" /\ stage_op.ret # "panic"
    /\ \E input \in SeqsOf(StageElems, 1, stage.obj.n_in) :
         LET r == FramedFft_map(stage.obj, input) IN
         /\ stage' = [stage EXCEPT !.obj = r.st]
         /\ stage_op' = [name |-> "map", input |-> input, ret |-> r.ret,
                         frame |-> r.frame,
                         first |-> IF stage_op.first = "unset"
                                   THEN Variant(input[1])
                                   ELSE stage_op.first,
                         before |-> stage.obj.bufs]
    /\ UNCHANGED <<esVars, sfVars, zpVars>>

\* Binner::new runs one activation of compute_bin_indexes; when that
\* returns the table, the Binner is built and wrapped (into_channeled)
ComputeBinIndexes ==
    /\ stage.kind = "bin" /\ stage.status = "searching"
    /\ stage.num_bins <= MaxNumBins
    /\ LET r == compute_bin_indexes(stage.config, stage.num_bins,
                                    stage.checked)
           b == Binner_new(stage.config, r.table)
       IN /\ stage' =
               IF r.ret = "retry"
               THEN [stage EXCEPT !.num_bins = @ + 1]
               ELSE IF r.ret = "panic" \/ b.ret = "panic"
               THEN [stage EXCEPT !.status = "panic"]
               ELSE [stage EXCEPT
                        !.status = "ready",
                        !.obj = ChanneledMapperWrapper_new(
                                    b.st, b.st.in_size, b.st.n_bins)]
          /\ stage_op' = [name |-> "compute_bin_indexes",
                          input |-> <<>>, ret |-> r.ret,
                          frame |-> <<>>, first |-> "unset",
                          num_bins |-> stage.num_bins, table |-> r.table]
    /\ UNCHANGED <<esVars, sfVars, zpVars>>

\* the wrapped Binner maps a frame
BinnerMap ==
    /\ stage.kind = "bin" /\ stage.status = "ready"
    /\ stage_op.ret # "panic"
    /\ \E input \in BinFrames(stage.config.input_size) :
         LET r == ChanneledMapperWrapper_map(stage.obj, input) IN
         /\ stage' = [stage EXCEPT !.obj = r.st]
         /\ stage_op' = [name |-> "map", input |-> input, ret |-> r.ret,
                         frame |-> r.frame, first |-> "unset",
                         before |-> stage.obj]
    /\ UNCHANGED <<esVars, sfVars, zpVars>>

\* SavitzkyGolayConfig::into_mapper(size): the coefficients are computed
\* and the mapper is made for frames of `size` elements
SGNew ==
    /\ stage.kind = "sg" /\ stage.status = "new"
    /\ LET c == compute_coefficients(stage.config) IN
       \E size \in 1..MaxSGSize :
         LET r == SavitzkyGolayMapper_new(size, c) IN
         /\ stage' = [stage EXCEPT
                         !.status = IF r.ret = "ok" THEN "ready"
                                    ELSE "panic",
                         !.size = size, !.obj = r.st]
         /\ stage_op' = [name |-> "compute_coefficients", input |-> <<>>,
                         ret |-> r.ret, frame |-> <<>>, first |-> "unset"]
    /\ UNCHANGED <<esVars, sfVars, zpVars>>

\* the smoothing stage maps a frame of the size it was made for
SGMap ==
    /\ stage.kind = "sg" /\ stage.status = "ready"
    /\ stage_op.ret # "panic"
    /\ \E input \in SGFrames(stage.size) :
         LET r == SavitzkyGolayMapper_map(stage.obj, input) IN
         /\ stage' = [stage EXCEPT !.obj = r.st]
         /\ stage_op' = [name |-> "map", input |-> input, ret |-> r.ret,
                         frame |-> r.frame, first |-> "unset",
                         windows |-> SlidingWindow_collect(
                                         stage.config.window_size,
                                         Len(input))]
    /\ UNCHANGED <<esVars, sfVars, zpVars>>

NextStage == FftMap \/ ComputeBinIndexes \/ BinnerMap \/ SGNew \/ SGMap
SpecStage == InitStage /\ [][NextStage]_vars

\* -------------------------------------------------------- claims: stages
StageMapped == stage_op.name = "map"
StageEmitted == stage_op.name = "map" /\ stage_op.ret = "some"
\* the input size the stage was configured for
StageInputSize ==
    CASE stage.kind = "fft" -> stage.obj.n_in
      [] stage.kind = "bin" -> stage.config.input_size
      [] stage.kind = "sg" -> stage.size

(* C11: a frame emitted by the spectral stage, by the                      *)
(* ChanneledMapperWrapper or by the smoothing stage has at every position  *)
(* the variant (Mono or Stereo) of the elements of the input frame, and    *)
(* Channeled::map and Channeled::try_map give a value of the variant of    *)
(* the value they are applied to.                                          *)
C11_VariantIsKept ==
    /\ StageEmitted =>
         \A i \in 1..Len(stage_op.frame) : \A j \in 1..Len(stage_op.input) :
             Variant(stage_op.frame[i]) = Variant(stage_op.input[j])
    /\ StageMapped =>
         \A j \in 1..Len(stage_op.input) :
           LET e == stage_op.input[j] IN
           /\ Variant(Channeled_map(e, [ch \in Channels(e) |-> <<e[ch], e[ch]>>]))
                = Variant(e)
           /\ Variant(Channeled_try_map(e,
                          [ch \in Channels(e) |->
                               [ok |-> TRUE, v |-> <<e[ch]>>]]).v)
                = Variant(e)
\* the spectral stage emitted a Stereo frame for a Stereo input
C11_Witness ==
    /\ stage.kind = "fft" /\ StageEmitted
    /\ Len(stage_op.frame) > 0 /\ IsStereo(stage_op.frame[1])
    /\ IsStereo(stage_op.input[1])

(* C12: the channel mode of the spectral stage is the variant of the first *)
(* element of the first frame it received; a call of map whose input has   *)
(* an element of the other variant returns an error and emits no frame.    *)
C12_MismatchIsError ==
    (stage.kind = "fft" /\ StageMapped) =>
        /\ stage.obj.bufs # None
        /\ Variant(stage.obj.bufs[2]) = stage_op.first
        /\ (\E j \in 1..Len(stage_op.input) :
                Variant(stage_op.input[j]) # stage_op.first)
             => (stage_op.ret = "err" /\ stage_op.frame = <<>>)
\* a later frame began with an element of the other variant and map
\* returned an error
C12_Witness ==
    /\ stage.kind = "fft" /\ StageMapped
    /\ Variant(stage_op.input[1]) # stage_op.first
    /\ stage_op.ret = "err"

RECURSIVE FiniteSum(_, _, _, _)
FiniteSum(input, c, lo, hi) ==
    IF lo >= hi \/ lo >= Len(input) THEN 0
    ELSE (IF is_finite(input[lo + 1][c]) THEN input[lo + 1][c][2] ELSE 0)
         + FiniteSum(input, c, lo + 1, hi)

(* C14: for an input frame of the configured length the binning stage      *)
(* emits a frame, and the value of bin j in every channel is the sum of    *)
(* the finite inputs of that channel at the source indices from boundary j *)
(* up to, not including, boundary j + 1, divided by the configured input   *)
(* length; inputs outside the boundaries and inputs that are not finite    *)
(* add nothing and leave the divisor alone.                                *)
C14_BinIsSumOverInputSize ==
    (stage.kind = "bin" /\ StageMapped /\ stage_op.ret # "panic"
     /\ Len(stage_op.input) = stage.config.input_size) =>
        LET b == stage.obj.mapper.indexes
            n_bins == Len(b) - 1
        IN /\ stage_op.ret = "some"
           /\ Len(stage_op.frame) = n_bins
           /\ \A j \in 1..n_bins : \A c \in Channels(stage_op.input[1]) :
                stage_op.frame[j][c] =
                    Fin(FiniteSum(stage_op.input, c, b[j], b[j + 1]),
                        stage.config.input_size)
\* a frame was binned that has an element below the first boundary, an
\* element at the last boundary, and a value that is not finite inside a
\* bin
C14_Witness ==
    /\ stage.kind = "bin" /\ StageEmitted
    /\ LET b == stage.obj.mapper.indexes IN
       /\ b[1] > 0 /\ b[Len(b)] < Len(stage_op.input)
       /\ \E i \in (b[1] + 1)..b[Len(b)] :
              ~is_finite(stage_op.input[i][2])

\* hz_for_idx(i) >= fmin
HzReachesFmin(c, i) == i * c.sample_rate >= c.fmin * 2 * c.input_size

(* C15: a table returned by compute_bin_indexes has one entry more than    *)
(* its bin count, the bin count is at least the desired one, the entries   *)
(* are strictly increasing source indices below the input size, and the    *)
(* first entry is the smallest source index whose frequency is at least    *)
(* fmin.                                                                   *)
C15_TableIsComplete ==
    (stage_op.name = "compute_bin_indexes" /\ stage_op.ret = "ok") =>
        LET t == stage_op.table
            c == stage.config
        IN /\ Len(t) - 1 >= c.bins
           /\ \A j \in 1..Len(t) : t[j] >= 0 /\ t[j] < c.input_size
           /\ \A j \in 1..(Len(t) - 1) : t[j] < t[j + 1]
           /\ HzReachesFmin(c, t[1])
           /\ \A i \in 0..(t[1] - 1) : ~HzReachesFmin(c, i)

(* C16: the search for the bin boundaries ends with the table or with a    *)
(* configuration error, never with a panic.                                *)
C16_SearchEndsWithoutAbort ==
    stage.kind = "bin" => stage.status # "panic"

\* every element of the input frame has the variant of the first
InputOfOneVariant ==
    \A j \in 1..Len(stage_op.input) :
        Variant(stage_op.input[j]) = Variant(stage_op.input[1])

(* C17: the smoothing stage emits, for every input frame of one variant,   *)
(* a frame of the length of its input, whatever that length is against    *)
(* the window size.                                                        *)
C17_OutputLengthIsInputLength ==
    (stage.kind = "sg" /\ StageMapped /\ InputOfOneVariant) =>
        /\ stage_op.ret = "some"
        /\ Len(stage_op.frame) = Len(stage_op.input)

(* C18: for a frame of length K at least the window size W = 2M + 1 the    *)
(* window iterator yields K windows, the one of position p being W wide    *)
(* and inside the frame: [p - M, p + M] with the middle row for            *)
(* M <= p <= K - 1 - M, [0, W) with row p for p < M, [K - W, K) with row   *)
(* W - 1 - (K - 1 - p) for p > K - 1 - M; its start plus M plus its        *)
(* offset is p.                                                            *)
C18_WindowsFollowPositions ==
    (stage.kind = "sg" /\ StageMapped
     /\ Len(stage_op.input) >= stage.config.window_size) =>
        LET W == stage.config.window_size
            M == W \div 2
            K == Len(stage_op.input)
            wins == stage_op.windows
        IN /\ Len(wins) = K
           /\ \A p \in 0..(K - 1) :
                LET win == wins[p + 1]
                    row == win.offset + M
                IN /\ win.end - win.start = W
                   /\ win.start >= 0 /\ win.end <= K
                   /\ win.start + M + win.offset = p
                   /\ (M <= p /\ p <= K - 1 - M) =>
                        (win.start = p - M /\ win.end = p + M + 1
                         /\ win.offset = 0)
                   /\ p < M => (win.start = 0 /\ win.end = W /\ row = p)
                   /\ p > K - 1 - M =>
                        (win.start = K - W /\ win.end = K
                         /\ row = W - 1 - (K - 1 - p))
\* a frame two longer than the window was smoothed: it has positions at
\* both edges and more than one position in between
C18_Witness ==
    /\ stage.kind = "sg" /\ StageEmitted
    /\ Len(stage_op.input) = stage.config.window_size + 2

(* C19: for an odd window size W of at least 3, any degree and the order   *)
(* 0, compute_coefficients returns W rows of W taps and every row sums to  *)
(* exactly 1.                                                              *)
C19_RowsSumToOne ==
    (stage.kind = "sg" /\ stage_op.name = "compute_coefficients"
     /\ stage.config.order = 0) =>
        LET rows == stage.obj.coefficients
            W == stage.config.window_size
        IN /\ stage_op.ret = "ok"
           /\ Len(rows) = W
           /\ \A r \in 1..Len(rows) :
                Len(rows[r]) = W /\ RSum(rows[r]) = RInt(1)

\* the values of channel c of a frame lie on a line
OnALine(frame, c) ==
    \A i \in 2..(Len(frame) - 1) :
        RSub(frame[i + 1][c], frame[i][c]) =
            RSub(frame[i][c], frame[i - 1][c])

(* C20: with the order 0 and a degree of at least 1, a frame at least as   *)
(* long as the window whose values lie on a line in every channel is       *)
(* returned as it is, at every position.                                   *)
C20_LineIsKept ==
    (stage.kind = "sg" /\ StageMapped /\ InputOfOneVariant
     /\ stage.config.order = 0 /\ stage.config.degree >= 1
     /\ Len(stage_op.input) >= stage.config.window_size
     /\ \A c \in Channels(stage_op.input[1]) : OnALine(stage_op.input, c)) =>
        /\ stage_op.ret = "some"
        /\ stage_op.frame = stage_op.input
\* a Stereo frame of two different rising lines, longer than the window,
\* was smoothed
C20_Witness ==
    /\ stage.kind = "sg" /\ StageEmitted
    /\ stage.config.order = 0 /\ stage.config.degree >= 1
    /\ Len(stage_op.input) > stage.config.window_size
    /\ IsStereo(stage_op.input[1])
    /\ OnALine(stage_op.input, 2) /\ OnALine(stage_op.input, 3)
    /\ stage_op.input[1][2] # stage_op.input[2][2]
    /\ stage_op.input[1][3] # stage_op.input[2][3]
    /\ stage_op.input[1][2] # stage_op.input[1][3]

\* ============================================================== leveling
\* The clamp and normalize functions of the leveling steps.  An f64 is
\* Fin(n, d) with n/d reduced, NaN, PosInf or NegInf; a comparison with
\* NaN is false and arithmetic on NaN gives NaN.
MaxLevel == 3       \* the inputs are the halves between -MaxLevel and MaxLevel
MaxDb == 2          \* the clamp limits lie between -MaxDb and MaxDb

PosInf == <<"inf">>
NegInf == <<"-inf">>
FinOf(r) == Fin(r[1], r[2])
RatOf(x) == <<x[2], x[3]>>
\* x < y on f64
FLt(x, y) ==
    CASE x = NaN \/ y = NaN -> FALSE
      [] x = NegInf -> y # NegInf
      [] y = PosInf -> x # PosInf
      [] x = PosInf \/ y = NegInf -> FALSE
      [] OTHER -> x[2] * y[3] < y[2] * x[3]

\* the values a leveling function is applied to
LevelValues ==
    {NaN, PosInf, NegInf}
    \cup { FinOf(Ratio(n, 2)) : n \in (-2 * MaxLevel)..(2 * MaxLevel) }
\* the finite clamp limits, min below max (validate_config)
LevelLimits ==
    { l \in [min : (-MaxDb)..MaxDb, max : (-MaxDb)..MaxDb] : l.min < l.max }

\* normalize_between with finite limits
normalize_between(v, min, max) ==
    IF FLt(v, FinOf(RInt(min))) THEN FinOf(RInt(0))
    ELSE IF FLt(FinOf(RInt(max)), v) THEN FinOf(RInt(1))
    ELSE IF v = NaN THEN NaN
    ELSE FinOf(RDiv(RSub(RatOf(v), RInt(min)), RInt(max - min)))

normalize_infs(v) ==
    IF v = NaN \/ v = NegInf THEN FinOf(RInt(0))
    ELSE IF v = PosInf THEN FinOf(RInt(1))
    ELSE v

constrain_normalized(v) ==
    IF FLt(FinOf(RInt(1)), v) THEN FinOf(RInt(1))
    ELSE IF FLt(v, FinOf(RInt(0))) THEN FinOf(RInt(0))
    ELSE v

LevelNew == [name |-> "new", input |-> NaN, once |-> NaN, twice |-> NaN]

InitLevel ==
    /\ stage \in { [kind |-> "level", min |-> l.min, max |-> l.max] :
                     l \in LevelLimits }
    /\ stage_op = LevelNew
    /\ es = ES_new([len |-> 0, full |-> 0, chans |-> <<>>, pos |-> 0], 0, 1)
    /\ es_op = NoCall /\ es_emitted = <<>>
    /\ sf = SFIdle /\ sf_op = NoCall /\ sf_count = 0
    /\ zp = ZPIdle

\* one value goes through normalize_between, and through it again
NormalizeBetween ==
    /\ stage.kind = "level"
    /\ \E v \in LevelValues :
         LET once == normalize_between(v, stage.min, stage.max) IN
         stage_op' = [name |-> "normalize_between", input |-> v,
                      once |-> once,
                      twice |-> normalize_between(once, stage.min,
                                                  stage.max)]
    /\ UNCHANGED <<esVars, sfVars, zpVars, stage>>

NormalizeInfs ==
    /\ stage.kind = "level"
    /\ \E v \in LevelValues :
         LET once == normalize_infs(v) IN
         stage_op' = [name |-> "normalize_infs", input |-> v,
                      once |-> once, twice |-> normalize_infs(once)]
    /\ UNCHANGED <<esVars, sfVars, zpVars, stage>>

ConstrainNormalized ==
    /\ stage.kind = "level"
    /\ \E v \in LevelValues :
         LET once == constrain_normalized(v) IN
         stage_op' = [name |-> "constrain_normalized", input |-> v,
                      once |-> once, twice |-> constrain_normalized(once)]
    /\ UNCHANGED <<esVars, sfVars, zpVars, stage>>

NextLevel == NormalizeBetween \/ NormalizeInfs \/ ConstrainNormalized
SpecLevel == InitLevel /\ [][NextLevel]_vars

(* C21: each of normalize_between (with min below max), normalize_infs and *)
(* constrain_normalized gives, applied to its own result, that result      *)
(* again, for every input inside or outside [0, 1].                        *)
C21_LevelingIsIdempotent ==
    (stage.kind = "level" /\ stage_op.name # "new") =>
        stage_op.twice = stage_op.once
\* the same for the two functions that do not scale
C21_ClampsAreIdempotent ==
    (stage.kind = "level"
     /\ stage_op.name \in {"normalize_infs", "constrain_normalized"}) =>
        stage_op.twice = stage_op.once

\* ======================================================= validate_config
\* VizPipelineConfig, its two SavitzkyGolayConfig and its VizBinningConfig
\* side by side in one record.  A finite f64 other than zero is normal
\* here (the subnormal numbers are left out).
MaxCfg == 3         \* the whole-number fields run from 0 to MaxCfg (the
                    \* window sizes two further), the f64 fields over the
                    \* halves between -MaxCfg/2 and MaxCfg/2

is_normal(x) == is_finite(x) /\ x[2] # 0
\* x <= y, x >= y on f64
FLe(x, y) == x # NaN /\ y # NaN /\ ~FLt(y, x)
FZero == FinOf(RInt(0))
FOne == FinOf(RInt(1))

CfgFloats ==
    {NaN, PosInf, NegInf}
    \cup { FinOf(Ratio(n, 2)) : n \in (-MaxCfg)..MaxCfg }
CfgFieldValues ==
    [fps |-> 0..MaxCfg, data_window_ms |-> 0..MaxCfg,
     alpha0 |-> CfgFloats, alpha1 |-> CfgFloats,
     s0_window_size |-> 0..(MaxCfg + 2), s0_degree |-> 0..MaxCfg,
     s0_order |-> 0..MaxCfg,
     s1_window_size |-> 0..(MaxCfg + 2), s1_degree |-> 0..MaxCfg,
     s1_order |-> 0..MaxCfg,
     min_db |-> CfgFloats, max_db |-> CfgFloats,
     bins |-> 0..MaxCfg, fmin |-> CfgFloats, fmax |-> CfgFloats,
     gamma |-> CfgFloats, discrete_levels |-> 0..(MaxCfg + 1)]
\* a configuration validate_config accepts
BaseConfig ==
    [fps |-> 2, data_window_ms |-> 2,
     alpha0 |-> FinOf(Ratio(1, 2)), alpha1 |-> FOne,
     s0_window_size |-> 3, s0_degree |-> 1, s0_order |-> 0,
     s1_window_size |-> 3, s1_degree |-> 1, s1_order |-> 0,
     min_db |-> FinOf(RInt(-1)), max_db |-> FinOf(Ratio(-1, 2)),
     bins |-> 2, fmin |-> FinOf(Ratio(1, 2)), fmax |-> FOne,
     gamma |-> FOne, discrete_levels |-> 3]
CfgChanges ==
    UNION { { <<f, v>> : v \in CfgFieldValues[f] } :
              f \in DOMAIN CfgFieldValues }
\* the configurations tried: BaseConfig with up to two fields changed
Configs ==
    { [BaseConfig EXCEPT ![a[1]] = a[2], ![b[1]] = b[2]] :
        a \in CfgChanges, b \in CfgChanges }

\* validate_smoothing_config: TRUE for Ok(())
validate_smoothing_config(cfg) ==
    IF cfg.degree = 0 THEN FALSE
    ELSE IF cfg.window_size < 2 \/ cfg.window_size % 2 # 1 THEN FALSE
    ELSE TRUE

smoothing0(cfg) ==
    [window_size |-> cfg.s0_window_size, degree |-> cfg.s0_degree,
     order |-> cfg.s0_order]
smoothing1(cfg) ==
    [window_size |-> cfg.s1_window_size, degree |-> cfg.s1_degree,
     order |-> cfg.s1_order]

\* validate_config: "ok" for Ok(cfg), "err" for an Err
validate_config(cfg) ==
    IF cfg.fps <= 1 THEN "err"
    ELSE IF cfg.data_window_ms <= 1 THEN "err"
    ELSE IF FLe(cfg.alpha0, FZero) \/ FLt(FOne, cfg.alpha0)
            \/ ~is_normal(cfg.alpha0) THEN "err"
    ELSE IF FLe(cfg.alpha1, FZero) \/ FLt(FOne, cfg.alpha1)
            \/ ~is_normal(cfg.alpha1) THEN "err"
    ELSE IF ~validate_smoothing_config(smoothing0(cfg)) THEN "err"
    ELSE IF ~validate_smoothing_config(smoothing1(cfg)) THEN "err"
    ELSE IF ~is_normal(cfg.min_db) THEN "err"
    ELSE IF ~is_normal(cfg.max_db) THEN "err"
    ELSE IF FLe(cfg.max_db, cfg.min_db) THEN "err"
    ELSE IF cfg.bins <= 1 THEN "err"
    ELSE IF ~is_normal(cfg.fmin) THEN "err"
    ELSE IF ~is_normal(cfg.fmax) THEN "err"
    ELSE IF FLe(cfg.fmax, cfg.fmin) THEN "err"
    ELSE IF ~is_normal(cfg.gamma) \/ FLe(cfg.gamma, FZero) THEN "err"
    ELSE IF cfg.discrete_levels <= 2 THEN "err"
    ELSE "ok"

InitValidate ==
    /\ stage \in { [kind |-> "validate", cfg |-> c] : c \in Configs }
    /\ stage_op = NoCall
    /\ es = ES_new([len |-> 0, full |-> 0, chans |-> <<>>, pos |-> 0], 0, 1)
    /\ es_op = NoCall /\ es_emitted = <<>>
    /\ sf = SFIdle /\ sf_op = NoCall /\ sf_count = 0
    /\ zp = ZPIdle

ValidateConfig ==
    /\ stage.kind = "validate"
    /\ stage_op.name = "new"
    /\ stage_op' = [name |-> "validate_config",
                    ret |-> validate_config(stage.cfg)]
    /\ UNCHANGED <<esVars, sfVars, zpVars, stage>>

NextValidate == ValidateConfig
SpecValidate == InitValidate /\ [][NextValidate]_vars

\* x is positive and finite
PositiveFinite(x) == is_finite(x) /\ FLt(FZero, x)
\* the constraints on a configuration, one by one
AlphaInRange(x) == FLt(FZero, x) /\ FLe(x, FOne)
WindowOddFrom3(w) == w >= 3 /\ w % 2 = 1
SatisfiesConstraints(cfg) ==
    /\ AlphaInRange(cfg.alpha0) /\ AlphaInRange(cfg.alpha1)
    /\ WindowOddFrom3(cfg.s0_window_size)
    /\ WindowOddFrom3(cfg.s1_window_size)
    /\ FLt(cfg.min_db, cfg.max_db)
    /\ cfg.bins > 1
    /\ FLt(cfg.fmin, cfg.fmax)
    /\ PositiveFinite(cfg.fmin) /\ PositiveFinite(cfg.fmax)
    /\ PositiveFinite(cfg.gamma)
    /\ cfg.discrete_levels > 2

(* C22: validate_config returns an error for every configuration that     *)
(* breaks a constraint: alpha0 or alpha1 outside (0, 1], a window size     *)
(* that is even or below 3, min_db not below max_db, bins not above 1,     *)
(* fmin not below fmax, fmin or fmax not positive and finite, gamma not    *)
(* positive and finite, discrete_levels not above 2.                       *)
C22_ViolationIsRejected ==
    (stage.kind = "validate" /\ stage_op.name = "validate_config"
     /\ ~SatisfiesConstraints(stage.cfg)) => stage_op.ret = "err"

(* C23: validate_config accepts every configuration that keeps all the     *)
(* constraints (its frame rate and window duration being above 1),         *)
(* whatever the degree and the order of its two smoothing configurations.  *)
C23_ValidIsAccepted ==
    (stage.kind = "validate" /\ stage_op.name = "validate_config"
     /\ stage.cfg.fps > 1 /\ stage.cfg.data_window_ms > 1
     /\ SatisfiesConstraints(stage.cfg)) => stage_op.ret = "ok"

\* what validate_config lets through against the constraints: a window
\* size of 1, and an fmin or an fmax below zero
C22_RejectedButForWindowOneAndNegativeHz ==
    (stage.kind = "validate" /\ stage_op.name = "validate_config"
     /\ ~SatisfiesConstraints(stage.cfg)
     /\ stage.cfg.s0_window_size # 1 /\ stage.cfg.s1_window_size # 1
     /\ FLt(FZero, stage.cfg.fmin)) => stage_op.ret = "err"
\* what validate_config refuses within the constraints: a degree of 0 and
\* a min_db or a max_db that is zero or infinite
C23_AcceptedButForDegreeZeroAndDbNotNormal ==
    (stage.kind = "validate" /\ stage_op.name = "validate_config"
     /\ stage.cfg.fps > 1 /\ stage.cfg.data_window_ms > 1
     /\ SatisfiesConstraints(stage.cfg)
     /\ stage.cfg.s0_degree # 0 /\ stage.cfg.s1_degree # 0
     /\ is_normal(stage.cfg.min_db) /\ is_normal(stage.cfg.max_db))
        => stage_op.ret = "ok"

\* ========================================================== MappedFramed
\* A MappedFramed: a frame source with a mapper after it.  The source is
\* any Framed: it has `remaining` frames to give, and a call of its
\* next_frame gives the next one, None after the last, or fails.  The
\* mapper is the spectral stage or the wrapped Binner.
FramedMapper_map(mkind, mapper, data) ==
    IF mkind = "fft" THEN FramedFft_map(mapper, data)
    ELSE ChanneledMapperWrapper_map(mapper, data)

\* a next_frame that takes a mapper without output for a failure
MappedFramed_next_frame_strict(m, s) ==
    IF s.ret = "err"
    THEN [st |-> m, ret |-> "err", frame |-> <<>>, called |-> FALSE,
          mapper_ret |-> "unset"]
    ELSE IF s.ret = "some"
    THEN LET r == FramedMapper_map(m.mkind, m.mapper, s.frame) IN
         [st |-> [m EXCEPT !.mapper = r.st],
          ret |-> IF r.ret = "none" THEN "err" ELSE r.ret,
          frame |-> r.frame, called |-> TRUE, mapper_ret |-> r.ret]
    ELSE [st |-> m, ret |-> "none", frame |-> <<>>, called |-> FALSE,
          mapper_ret |-> "unset"]
\* MappedFramed::next_frame, given what self.source.next_frame() returned;
\* `called` tells whether the mapper was invoked and `mapper_ret` what it
\* returned
MappedFramed_next_frame(m, s) ==
    IF s.ret = "err"
    THEN [st |-> m, ret |-> "err", frame |-> <<>>, called |-> FALSE,
          mapper_ret |-> "unset"]
    ELSE IF s.ret = "some"
    THEN LET r == FramedMapper_map(m.mkind, m.mapper, s.frame) IN
         [st |-> [m EXCEPT !.mapper = r.st], ret |-> r.ret,
          frame |-> r.frame, called |-> TRUE, mapper_ret |-> r.ret]
    ELSE [st |-> m, ret |-> "none", frame |-> <<>>, called |-> FALSE,
          mapper_ret |-> "unset"]

\* the Binners whose table is found by the first activation of the search,
\* wrapped
ReadyBinners ==
    { LET b == Binner_new(c, compute_bin_indexes(c, c.bins, TRUE).table)
      IN ChanneledMapperWrapper_new(b.st, b.st.in_size, b.st.n_bins) :
        c \in { c \in BinConfigs :
                  compute_bin_indexes(c, c.bins, TRUE).ret = "ok" } }

\* the frames the source can give to the mapper
MappedInputs(m) ==
    IF m.mkind = "fft" THEN SeqsOf(StageElems, 1, m.mapper.n_in)
    ELSE BinFrames(m.mapper.in_size)

MappedNew == [name |-> "new", source_ret |-> "unset", ret |-> "ok",
              frame |-> <<>>, called |-> FALSE, mapper_ret |-> "unset",
              input |-> <<>>]

InitMapped ==
    /\ \/ stage \in { [kind |-> "mapped", mkind |-> "fft",
                       mapper |-> FramedFft_new(cap), remaining |-> k] :
                        cap \in 1..MaxFftSize, k \in 0..MaxFrames }
       \/ stage \in { [kind |-> "mapped", mkind |-> "bin",
                       mapper |-> w, remaining |-> k] :
                        w \in ReadyBinners, k \in 0..MaxFrames }
    /\ stage_op = MappedNew
    /\ es = ES_new([len |-> 0, full |-> 0, chans |-> <<>>, pos |-> 0], 0, 1)
    /\ es_op = NoCall /\ es_emitted = <<>>
    /\ sf = SFIdle /\ sf_op = NoCall /\ sf_count = 0
    /\ zp = ZPIdle

\* next_frame of the MappedFramed; its source fails, is at its end, or
\* gives a frame
MappedNextFrame ==
    /\ stage.kind = "mapped" /\ stage_op.ret # "panic"
    /\ \E s \in {[ret |-> "err", frame |-> <<>>]}
             \cup (IF stage.remaining = 0
                   THEN {[ret |-> "none", frame |-> <<>>]}
                   ELSE { [ret |-> "some", frame |-> f] :
                            f \in MappedInputs(stage) }) :
         LET r == MappedFramed_next_frame(stage, s) IN
         /\ stage' = [r.st EXCEPT !.remaining =
                         IF s.ret = "some" THEN @ - 1 ELSE @]
         /\ stage_op' = [name |-> "next_frame", source_ret |-> s.ret,
                         ret |-> r.ret, frame |-> r.frame,
                         called |-> r.called, mapper_ret |-> r.mapper_ret,
                         input |-> s.frame]
    /\ UNCHANGED <<esVars, sfVars, zpVars>>

NextMapped == MappedNextFrame
SpecMapped == InitMapped /\ [][NextMapped]_vars

(* C24: next_frame of a MappedFramed returns "no frame" exactly when its   *)
(* source returned no frame, the mapper then not being invoked, or the     *)
(* mapper returned no output; it returns an error exactly when the source  *)
(* or the mapper returned an error.                                        *)
C24_NoFrameIsNotAnError ==
    (stage.kind = "mapped" /\ stage_op.name = "next_frame") =>
        /\ stage_op.source_ret = "none" => ~stage_op.called
        /\ stage_op.ret = "none" <=>
             \/ stage_op.source_ret = "none"
             \/ (stage_op.called /\ stage_op.mapper_ret = "none")
        /\ stage_op.ret = "err" <=>
             \/ stage_op.source_ret = "err"
             \/ (stage_op.called /\ stage_op.mapper_ret = "err")
\* the Binner was given a frame shorter than its input size, returned no
\* output, and next_frame returned no frame
C24_Witness ==
    /\ stage.kind = "mapped" /\ stage_op.name = "next_frame"
    /\ stage.mkind = "bin"
    /\ stage_op.called /\ stage_op.mapper_ret = "none"
    /\ Len(stage_op.input) # stage.mapper.in_size
    /\ stage_op.ret = "none"

\* ====================================================== the sample source
\* The WavFile on its own: stage.source is the file, stage_op the last
\* call with the position before it.
WavNew == [name |-> "new", n |-> 0, fail |-> FALSE, ret |-> "ok",
           before |-> 0]

InitWav ==
    /\ stage \in { [kind |-> "wav",
                    source |-> [num_samples |-> N, sample_at |-> 0]] :
                     N \in 0..MaxSamples }
    /\ stage_op = WavNew
    /\ es = ES_new([len |-> 0, full |-> 0, chans |-> <<>>, pos |-> 0], 0, 1)
    /\ es_op = NoCall /\ es_emitted = <<>>
    /\ sf = SFIdle /\ sf_op = NoCall /\ sf_count = 0
    /\ zp = ZPIdle

\* next_sample; the read of the file may fail
WavNextSample ==
    /\ stage.kind = "wav"
    /\ \E fail \in BOOLEAN :
         LET r == Wav_next_sample(stage.source, fail) IN
         /\ stage' = [stage EXCEPT !.source = r.src]
         /\ stage_op' = [name |-> "next_sample", n |-> 0, fail |-> fail,
                         ret |-> r.ret, before |-> stage.source.sample_at]
    /\ UNCHANGED <<esVars, sfVars, zpVars>>

\* seek_samples(n); the seek of the file may fail
WavSeekSamples ==
    /\ stage.kind = "wav"
    /\ \E n \in (-MaxSeek - 1)..(MaxSeek + 1), fail \in BOOLEAN :
         LET r == Wav_seek_samples(stage.source, n, fail) IN
         /\ stage' = [stage EXCEPT !.source = r.src]
         /\ stage_op' = [name |-> "seek_samples", n |-> n, fail |-> fail,
                         ret |-> r.ret, before |-> stage.source.sample_at]
    /\ UNCHANGED <<esVars, sfVars, zpVars>>

NextWav == WavNextSample \/ WavSeekSamples
SpecWav == InitWav /\ [][NextWav]_vars

(* C25: seek_samples(n) returns success only when the position plus n lies *)
(* inside the stream, and then the position has moved by n; when the       *)
(* target lies before the start or past the end it returns an error and    *)
(* the position is unchanged.                                              *)
C25_SeekOutOfRangeIsError ==
    (stage.kind = "wav" /\ stage_op.name = "seek_samples") =>
        LET target == stage_op.before + stage_op.n IN
        /\ stage_op.ret = "ok" =>
             /\ target >= 0 /\ target <= stage.source.num_samples
             /\ stage.source.sample_at = target
        /\ (target < 0 \/ target > stage.source.num_samples) =>
             /\ stage_op.ret = "err"
             /\ stage.source.sample_at = stage_op.before
\* what seek_samples does keep: the position moves by n or not at all, and
\* stays inside the stream
C25_SeekMovesByNOrNotAtAll ==
    (stage.kind = "wav" /\ stage_op.name = "seek_samples") =>
        /\ stage.source.sample_at \in
               {stage_op.before, stage_op.before + stage_op.n}
        /\ stage.source.sample_at >= 0
        /\ stage.source.sample_at <= stage.source.num_samples

\* ========================================== the coefficients, in parallel
\* compute_coefficients as its workers run it: a task for every row (the
\* outer into_par_iter) and, inside weights, a task for every tap of the
\* row (the inner into_par_iter); tasks end in any order and collect puts
\* the result of task idx at position idx.  The taps of one row, `open`,
\* end one by one; the other rows end as a whole.  memo[r][c] is what the
\* closure of tap c of row r computes, weight(c - 1 - m, r - 1 - m, m, n,
\* s), computed once.
MaxParHalfWindow == 1   \* half the largest window whose tasks are
                        \* interleaved

\* collect of an indexed parallel iterator: the item of task idx goes to
\* position idx, whenever the task ends
par_collect_as_finished(vec, idx, v) ==
    LET free == { k \in 1..Len(vec) : vec[k] = Unset }
        k == CHOOSE k \in free : \A j \in free : k <= j
    IN [vec EXCEPT ![k] = v]
par_collect(vec, idx, v) == [vec EXCEPT ![idx] = v]

\* weights, after its taps were collected: the sum and the division
weights_of(fracs) == div_from(fracs, RSum(fracs), 1)

RECURSIVE memo_from(_, _, _)
memo_from(r, m, cfg) ==
    IF r > 2 * m + 1 THEN <<>>
    ELSE <<fracs_from(1, m, r - 1 - m, cfg.degree, cfg.order)>>
         \o memo_from(r + 1, m, cfg)

AllUnset(n) == [k \in 1..n |-> Unset]
CoefNew == [name |-> "new", idx |-> 0]

\* no task has ended: `tapped` and `rowed` are the tasks that have, and
\* `reordered` tells whether a task ended before one of a lower index
InitCoef ==
    /\ \E c \in { c \in SGConfigs :
                    c.window_size <= 2 * MaxParHalfWindow + 1 } :
         \E r \in 1..c.window_size :
           stage = [kind |-> "coef", config |-> c, open |-> r,
                    memo |-> memo_from(1, c.window_size \div 2, c),
                    tapped |-> {}, fracs |-> AllUnset(c.window_size),
                    rowed |-> {}, rows |-> AllUnset(c.window_size),
                    reordered |-> FALSE,
                    result |-> [ret |-> "unset", rows |-> <<>>]]
    /\ stage_op = CoefNew
    /\ es = ES_new([len |-> 0, full |-> 0, chans |-> <<>>, pos |-> 0], 0, 1)
    /\ es_op = NoCall /\ es_emitted = <<>>
    /\ sf = SFIdle /\ sf_op = NoCall /\ sf_count = 0
    /\ zp = ZPIdle

\* the task of one tap of the open row ends
CoefTap ==
    /\ stage.kind = "coef"
    /\ \E c \in (1..stage.config.window_size) \ stage.tapped :
         /\ stage' = [stage EXCEPT
                         !.tapped = @ \cup {c},
                         !.reordered =
                             @ \/ \E k \in 1..(c - 1) : k \notin stage.tapped,
                         !.fracs = par_collect(@, c,
                                       stage.memo[stage.open][c])]
         /\ stage_op' = [name |-> "tap", idx |-> c]
    /\ UNCHANGED <<esVars, sfVars, zpVars>>

\* the task of the open row ends: its taps are collected, weights sums
\* and divides them
CoefOpenRow ==
    /\ stage.kind = "coef"
    /\ stage.tapped = 1..stage.config.window_size
    /\ stage.open \notin stage.rowed
    /\ stage' = [stage EXCEPT
                    !.rowed = @ \cup {stage.open},
                    !.reordered =
                        @ \/ \E k \in 1..(stage.open - 1) :
                                 k \notin stage.rowed,
                    !.rows = par_collect(@, stage.open,
                                         weights_of(stage.fracs))]
    /\ stage_op' = [name |-> "row", idx |-> stage.open]
    /\ UNCHANGED <<esVars, sfVars, zpVars>>

\* the task of another row ends
CoefRow ==
    /\ stage.kind = "coef"
    /\ \E r \in (1..stage.config.window_size) \ (stage.rowed
                                                  \cup {stage.open}) :
         /\ stage' = [stage EXCEPT
                         !.rowed = @ \cup {r},
                         !.reordered =
                             @ \/ \E k \in 1..(r - 1) : k \notin stage.rowed,
                         !.rows = par_collect(@, r,
                                              weights_of(stage.memo[r]))]
         /\ stage_op' = [name |-> "row", idx |-> r]
    /\ UNCHANGED <<esVars, sfVars, zpVars>>

\* every row task has ended: compute_coefficients returns the table, or
\* the panic of a task is passed on
CoefCollect ==
    /\ stage.kind = "coef"
    /\ stage.rowed = 1..stage.config.window_size
    /\ stage.result.ret = "unset"
    /\ stage' = [stage EXCEPT !.result =
                    IF \E r \in 1..Len(stage.rows) :
                         \E j \in 1..Len(stage.rows[r]) :
                             IsInvalid(stage.rows[r][j])
                    THEN [ret |-> "panic", rows |-> <<>>]
                    ELSE [ret |-> "ok", rows |-> stage.rows]]
    /\ stage_op' = [name |-> "compute_coefficients", idx |-> 0]
    /\ UNCHANGED <<esVars, sfVars, zpVars>>

NextCoef == CoefTap \/ CoefOpenRow \/ CoefRow \/ CoefCollect
SpecCoef == InitCoef /\ [][NextCoef]_vars

(* C26: whatever the order in which the row tasks and the tap tasks end,   *)
(* compute_coefficients returns the table the rows give one after the      *)
(* other: row r (from 0) holds the weights for the time offset r - M and   *)
(* tap c of it the weight for i = c - M, divided by the sum of the row.    *)
C26_TableIsScheduleIndependent ==
    (stage.kind = "coef" /\ stage.result.ret # "unset") =>
        /\ stage.result = compute_coefficients(stage.config)
        /\ stage.result.ret = "ok" =>
             LET M == stage.config.window_size \div 2
                 n == stage.config.degree
                 s == stage.config.order
             IN \A r \in 0..(2 * M) : \A c \in 0..(2 * M) :
                  stage.result.rows[r + 1][c + 1] =
                      RDiv(weight(c - M, r - M, M, n, s),
                           RSum(fracs_from(1, M, r - M, n, s)))
\* a table was returned whose tasks did not end in the order of their
\* indexes
C26_Witness ==
    /\ stage.kind = "coef" /\ stage.result.ret # "unset"
    /\ stage.result.ret = "ok"
    /\ stage.reordered

\* ============================================================== Fraction
\* A Fraction is [numerator, denominator, simplified], the denominator
\* above zero.
MaxFrac == 3        \* numerators and divisors run from -MaxFrac to MaxFrac

signum(a) == IF a > 0 THEN 1 ELSE IF a < 0 THEN -1 ELSE 0

\* Fraction::new for a divisor other than 0
Fraction_new(numerator, divisor) ==
    [numerator |-> Abs(numerator) * (signum(numerator) * signum(divisor)),
     denominator |-> Abs(divisor), simplified |-> FALSE]

\* gcd by subtraction, for a and b above zero
RECURSIVE gcd(_, _)
gcd(a, b) ==
    IF a = b THEN a
    ELSE IF a > b THEN gcd(a - b, b)
    ELSE gcd(a, b - a)

lcm(a, b) ==
    IF a = 1 THEN b
    ELSE IF b = 1 THEN a
    ELSE (a * b) \div gcd(a, b)

\* Fraction::simplify
Fraction_simplify(f) ==
    IF f.simplified THEN f
    ELSE LET abs_numerator == Abs(f.numerator) IN
         IF f.denominator = 1 \/ abs_numerator < 2
         THEN [f EXCEPT !.simplified = TRUE]
         ELSE LET g == gcd(abs_numerator, f.denominator) IN
              IF g = 1 THEN [f EXCEPT !.simplified = TRUE]
              ELSE [numerator |-> (abs_numerator \div g)
                                     * signum(f.numerator),
                    denominator |-> f.denominator \div g,
                    simplified |-> TRUE]

\* Fraction::make_same_divisor: the pair it returns
make_same_divisor(self, other) ==
    IF self.denominator = other.denominator THEN <<self, other>>
    ELSE IF self.numerator = 0
    THEN << [numerator |-> 0, denominator |-> other.denominator,
             simplified |-> TRUE],
            [numerator |-> other.numerator,
             denominator |-> other.denominator,
             simplified |-> other.simplified] >>
    ELSE IF other.numerator = 0
    THEN \* other.make_same_divisor(self), self.numerator not being 0
         << [numerator |-> 0, denominator |-> self.denominator,
             simplified |-> TRUE],
            [numerator |-> self.numerator,
             denominator |-> self.denominator,
             simplified |-> self.simplified] >>
    ELSE LET l == lcm(self.denominator, other.denominator)
             lcm_div_self == l \div self.denominator
             lcm_div_other == l \div other.denominator
         IN << [numerator |-> self.numerator * lcm_div_self,
                denominator |-> l, simplified |-> FALSE],
               [numerator |-> other.numerator * lcm_div_other,
                denominator |-> l, simplified |-> FALSE] >>

\* Mul<T> for Fraction
Fraction_mul(self, rhs) ==
    Fraction_simplify([numerator |-> self.numerator * rhs.numerator,
                       denominator |-> self.denominator * rhs.denominator,
                       simplified |-> FALSE])

\* Add<T> for Fraction
Fraction_add(self, rhs) ==
    LET p == make_same_divisor(self, rhs) IN
    Fraction_simplify([numerator |-> p[1].numerator + p[2].numerator,
                       denominator |-> p[1].denominator,
                       simplified |-> FALSE])

\* PartialEq<T> for Fraction
Fraction_eq(self, other) ==
    LET self_simp == Fraction_simplify(self)
        other_simp == Fraction_simplify(other)
    IN /\ self_simp.numerator = other_simp.numerator
       /\ self_simp.denominator = other_simp.denominator

\* the fractions made by Fraction::new
Fractions ==
    { Fraction_new(n, d) : n \in (-MaxFrac)..MaxFrac,
                           d \in ((-MaxFrac)..MaxFrac) \ {0} }
FractionNew == [name |-> "new", out |-> Fraction_new(0, 1), eq |-> FALSE]

InitFraction ==
    /\ stage \in { [kind |-> "fraction", a |-> a, b |-> b] :
                     a \in Fractions, b \in Fractions }
    /\ stage_op = FractionNew
    /\ es = ES_new([len |-> 0, full |-> 0, chans |-> <<>>, pos |-> 0], 0, 1)
    /\ es_op = NoCall /\ es_emitted = <<>>
    /\ sf = SFIdle /\ sf_op = NoCall /\ sf_count = 0
    /\ zp = ZPIdle

\* a + b
FractionAdd ==
    /\ stage.kind = "fraction" /\ stage_op.name = "new"
    /\ stage_op' = [name |-> "add", out |-> Fraction_add(stage.a, stage.b),
                    eq |-> FALSE]
    /\ UNCHANGED <<esVars, sfVars, zpVars, stage>>

\* a * b
FractionMul ==
    /\ stage.kind = "fraction" /\ stage_op.name = "new"
    /\ stage_op' = [name |-> "mul", out |-> Fraction_mul(stage.a, stage.b),
                    eq |-> FALSE]
    /\ UNCHANGED <<esVars, sfVars, zpVars, stage>>

\* a == b
FractionEq ==
    /\ stage.kind = "fraction" /\ stage_op.name = "new"
    /\ stage_op' = [name |-> "eq", out |-> stage.a,
                    eq |-> Fraction_eq(stage.a, stage.b)]
    /\ UNCHANGED <<esVars, sfVars, zpVars, stage>>

NextFraction == FractionAdd \/ FractionMul \/ FractionEq
SpecFraction == InitFraction /\ [][NextFraction]_vars

\* the rational a Fraction stands for, reduced
ValueOf(f) == Ratio(f.numerator, f.denominator)

(* C27: a + b and a * b stand for the exact sum and product of the         *)
(* rationals a and b stand for, and a == b tells whether a and b stand for *)
(* the same rational, however they are written.                            *)
C27_ExactAndEqualByValue ==
    stage.kind = "fraction" =>
        /\ stage_op.name = "add" =>
             ValueOf(stage_op.out) = RAdd(ValueOf(stage.a), ValueOf(stage.b))
        /\ stage_op.name = "mul" =>
             ValueOf(stage_op.out) = RMul(ValueOf(stage.a), ValueOf(stage.b))
        /\ stage_op.name = "eq" =>
             (stage_op.eq <=> ValueOf(stage.a) = ValueOf(stage.b))
\* the sum and the product are exact; the results of the two unit tests
C27_SumAndProductAreExact ==
    /\ stage.kind = "fraction" =>
        /\ stage_op.name = "add" =>
             ValueOf(stage_op.out) = RAdd(ValueOf(stage.a), ValueOf(stage.b))
        /\ stage_op.name = "mul" =>
             ValueOf(stage_op.out) = RMul(ValueOf(stage.a), ValueOf(stage.b))
    /\ Fraction_eq(Fraction_add(Fraction_new(1, 2), Fraction_new(1, 3)),
                   Fraction_new(5, 6))
    /\ Fraction_eq(Fraction_mul(Fraction_new(2, 4), Fraction_new(-2, 1)),
                   Fraction_new(-1, 1))
\* a == b is right whenever a and b are not both zero
C27_EqualByValueButForZero ==
    (stage.kind = "fraction" /\ stage_op.name = "eq"
     /\ (stage.a.numerator # 0 \/ stage.b.numerator # 0)) =>
        (stage_op.eq <=> ValueOf(stage.a) = ValueOf(stage.b))

\* ------------------------------------------- claims: sliding, seeking back
\* the last call was a seek_frame(n), n < 0, that returned Ok, made where
\* the source has at least |n| samples behind its position
SFSeekedBack ==
    /\ sf_op.name = "seek_frame" /\ sf_op.n < 0 /\ sf_op.ret = "ok"
    /\ sf_op.before.source.sample_at + sf_op.n >= 0
\* the elements that call took off the buffer
SFTrimmed == Len(sf_op.before.buf) - Len(sf.buf)

\* next_frame calls alone came before the seek, and the frame |n| frames
\* back, frame sf_count + n, is a full one
SFReplayable ==
    /\ sf_op.pure /\ sf_count + sf_op.n >= 0
    /\ (sf_count + sf_op.n) * sf.stride + sf.size
           <= Wav_num_samples(sf.source)

(* C28: seek_frame(n), n < 0, takes min(|n|, buffer length) elements off   *)
(* the buffer and seeks the source back by |n| less the number taken off;  *)
(* after it, when next_frame calls alone came before, the next frame is    *)
(* the full frame returned |n| frames before.                              *)
C28_SeekBackIsReplay ==
    SFSeekedBack =>
        /\ SFTrimmed = Min(-sf_op.n, Len(sf_op.before.buf))
        /\ sf.source.sample_at =
               sf_op.before.source.sample_at - (-sf_op.n - SFTrimmed)
        /\ SFReplayable =>
               LET k == sf_count + sf_op.n
                   r == SlidingFrame_next_frame(sf, FALSE)
               IN r.ret = "some" /\ r.frame = Samples(k * sf.stride, sf.size)
\* what seek_frame(n), n < 0, does keep: the buffer loses its last
\* min(|n|, buffer length) elements, and the source is moved by n or not
\* at all
C28_BufferIsTrimmedAtItsEnd ==
    SFSeekedBack =>
        /\ SFTrimmed = Min(-sf_op.n, Len(sf_op.before.buf))
        /\ sf.buf = SubSeq(sf_op.before.buf, 1, Len(sf.buf))
        /\ sf.source.sample_at \in
               {sf_op.before.source.sample_at,
                sf_op.before.source.sample_at + sf_op.n}
\* the frame after a seek back is the one returned |n| frames before
C28_NextFrameIsTheOneSeekedTo ==
    (SFSeekedBack /\ SFReplayable) =>
        LET k == sf_count + sf_op.n
            r == SlidingFrame_next_frame(sf, FALSE)
        IN r.ret = "some" /\ r.frame = Samples(k * sf.stride, sf.size)

\* ------------------------------------------- zero padding (consume_input)
\* the input buffer of channel c of the spectral stage
FftInput(c) == stage.obj.bufs[2][c].input

\* the spectral stage has just mapped a frame into a frame
FftTicked == stage.kind = "fft" /\ StageMapped /\ stage_op.ret = "some"

\* C29: after a tick of the spectral stage on a frame of L <= n elements,
\* every channel's input buffer has n elements: the L values of the frame
\* first, zero from there on, whatever the buffer held before the tick.
C29_ShortFrameIsZeroPadded ==
    FftTicked =>
        LET L == Len(stage_op.input) IN
        \A c \in Channels(stage.obj.bufs[2]) :
            /\ Len(FftInput(c)) = stage.obj.n_in
            /\ \A i \in 1..stage.obj.n_in :
                 FftInput(c)[i] =
                     IF i <= L THEN stage_op.input[i][c] ELSE 0

\* a frame shorter than the one before it: the padding overwrites a value
\* of the earlier frame
C29_Witness ==
    /\ FftTicked /\ Len(stage_op.input) < stage.obj.n_in
    /\ stage_op.before # None
    /\ \E c \in Channels(stage_op.before[2]) :
         \E i \in (Len(stage_op.input) + 1)..stage.obj.n_in :
            /\ stage_op.before[2][c].input[i] # 0
            /\ FftInput(c)[i] = 0

\* --------------------------------------------- a gap in the bin search
\* the entries the last activation of compute_bin_indexes found
SearchOut ==
    bin_scan(stage.config, stage_op.num_bins,
             [b \in 1..(stage_op.num_bins + 1) |-> None], 0)

\* the last activation left a target bin after the first discovered one
\* without a boundary
SearchHadGap ==
    /\ stage.kind = "bin" /\ stage_op.name = "compute_bin_indexes"
    /\ has_gap(SearchOut)

\* C30: when a target bin after the first discovered one receives no
\* boundary, the search is retried with one bin more; it does not fail
\* or abort.
C30_GapIsRetried ==
    SearchHadGap =>
        /\ stage_op.ret = "retry"
        /\ stage.status = "searching"
        /\ stage.num_bins = stage_op.num_bins + 1

\* what the search does on a gap: it aborts, with no further activation
C30_GapAborts ==
    SearchHadGap => (stage_op.ret = "panic" /\ stage.status = "panic")

\* ------------------------------------------- the loop of Binner::map
\* One call of Binner::map on a frame of one channel, one iteration of
\* its loop at a time.  `stage` is the Binner, the frame, the source
\* index the next iteration takes from the iterator and the bin pointer;
\* `stage_op` is the last iteration: the pointers before and after it,
\* the positions of idx_slice and of bufs it indexed, the element.
\* a frame of one channel: the values 1, 2, 4, ... with NaN at the
\* positions `nans`
WalkInput(n, nans) ==
    [i \in 1..n |-> IF i \in nans THEN NaN ELSE Fin(Pow(2, i - 1), 1)]

WalkNew == [name |-> "map", idx |-> 0, bin_before |-> 0, bin_after |-> 0,
            elem |-> NaN, read |-> {}, pushed_to |-> {}, branch |-> "new"]

InitWalk ==
    /\ \E c \in { c \in BinConfigs :
                    compute_bin_indexes(c, c.bins, TRUE).ret = "ok" } :
       \E n \in {c.input_size - 1, c.input_size} :
       \E nans \in SUBSET (1..n) :
         stage = [kind |-> "walk", status |-> "called",
                  b |-> Binner_new(c, compute_bin_indexes(c, c.bins,
                                                          TRUE).table).st,
                  input |-> WalkInput(n, nans),
                  idx |-> 0, bin_idx |-> 0]
    /\ stage_op = WalkNew
    /\ es = ES_new([len |-> 0, full |-> 0, chans |-> <<>>, pos |-> 0], 0, 1)
    /\ es_op = NoCall /\ es_emitted = <<>>
    /\ sf = SFIdle /\ sf_op = NoCall /\ sf_count = 0
    /\ zp = ZPIdle

\* the call begins: a frame of another length than in_size is answered
\* with Ok(None) before the loop
WalkBegin ==
    /\ stage.kind = "walk" /\ stage.status = "called"
    /\ stage' = [stage EXCEPT !.status =
                     IF Len(stage.input) # stage.b.in_size
                     THEN "none" ELSE "loop"]
    /\ stage_op' = [stage_op EXCEPT !.branch = "begin"]
    /\ UNCHANGED <<esVars, sfVars, zpVars>>

\* one iteration of `for (idx, elem) in input.iter().enumerate()`
WalkIter ==
    /\ stage.kind = "walk" /\ stage.status = "loop"
    /\ stage.idx < Len(stage.input)
    /\ LET idx == stage.idx
           bin_idx == stage.bin_idx
           b == stage.b
           elem == stage.input[idx + 1]
           op == [name |-> "iter", idx |-> idx, bin_before |-> bin_idx,
                  bin_after |-> bin_idx, elem |-> elem,
                  read |-> {bin_idx}, pushed_to |-> {},
                  branch |-> "continue"]
       IN IF idx < b.indexes[bin_idx + 1]
          THEN /\ stage' = [stage EXCEPT !.idx = idx + 1]
               /\ stage_op' = op
          ELSE LET nb == IF idx >= b.indexes[bin_idx + 2]
                         THEN bin_idx + 1 ELSE bin_idx
                   op2 == [op EXCEPT !.bin_after = nb,
                                     !.read = {bin_idx, bin_idx + 1}]
               IN IF nb >= b.n_bins
                  THEN /\ stage' = [stage EXCEPT !.idx = idx + 1,
                                                 !.bin_idx = nb,
                                                 !.status = "left"]
                       /\ stage_op' = [op2 EXCEPT !.branch = "break"]
                  ELSE IF is_finite(elem)
                  THEN /\ stage' = [stage EXCEPT
                                       !.idx = idx + 1, !.bin_idx = nb,
                                       !.b.bufs[nb + 1] = Append(@, elem)]
                       /\ stage_op' = [op2 EXCEPT !.pushed_to = {nb},
                                                  !.branch = "push"]
                  ELSE /\ stage' = [stage EXCEPT !.idx = idx + 1,
                                                 !.bin_idx = nb]
                       /\ stage_op' = [op2 EXCEPT !.branch = "skip"]
    /\ UNCHANGED <<esVars, sfVars, zpVars>>

\* the loop is over (the iterator is at its end, or the break was taken):
\* aggregate_bufs
WalkAggregate ==
    /\ stage.kind = "walk"
    /\ \/ stage.status = "left"
       \/ stage.status = "loop" /\ stage.idx >= Len(stage.input)
    /\ stage' = [stage EXCEPT !.status = "done",
                              !.b = aggregate_bufs(stage.b)]
    /\ stage_op' = [stage_op EXCEPT !.name = "aggregate_bufs"]
    /\ UNCHANGED <<esVars, sfVars, zpVars>>

NextWalk == WalkBegin \/ WalkIter \/ WalkAggregate
SpecWalk == InitWalk /\ [][NextWalk]_vars

WalkIterated == stage_op.name = "iter"

\* the pointers only advance, the bin pointer by at most one for each
\* source element, and no position past the end of idx_slice or of bufs is
\* indexed
WalkIsMonotonic ==
    /\ stage.idx = stage_op.idx + 1
    /\ stage_op.bin_after \in {stage_op.bin_before, stage_op.bin_before + 1}
    /\ stage.bin_idx = stage_op.bin_after
    /\ \A k \in stage_op.read : k < Len(stage.b.indexes)
    /\ \A k \in stage_op.pushed_to : k < stage.b.n_bins

\* C31: during Binner::map the source index and the bin pointer only
\* advance, the bin pointer advances by at most one per source element and
\* never indexes past the last bin, and a source value that is not finite
\* never advances the bin pointer.
C31_WalkAdvancesOnFiniteValuesOnly ==
    WalkIterated =>
        /\ WalkIsMonotonic
        /\ ~is_finite(stage_op.elem) =>
               stage_op.bin_after = stage_op.bin_before

\* what the loop keeps: the walk is monotonic, and a value that is not
\* finite is pushed to no bin
C31_WalkIsMonotonicAndSkipsNonFinite ==
    WalkIterated =>
        /\ WalkIsMonotonic
        /\ ~is_finite(stage_op.elem) => stage_op.pushed_to = {}

\* the iterations together are the loop of Binner::map
C31_IterationsAreTheWalk ==
    (stage.kind = "walk" /\ stage.status = "done") =>
        stage.b = aggregate_bufs(binner_walk(
                      [stage.b EXCEPT !.out_buf = <<>>], stage.input, 0, 0))

\* ------------------------------- exponential smoothing: no frame
\* next_frame was called with the position counter at num_frames(), or
\* with a source that gives no frame
ESNoFrameCase ==
    /\ es_op.name = "next_frame"
    /\ \/ es_op.before.at = ES_num_frames(es_op.before)
       \/ /\ ~es_op.fail
          /\ es_op.before.source.pos >= es_op.before.source.len

\* C32: when the source yields no frame, or the position counter has
\* reached num_frames(), next_frame returns no frame and leaves the current
\* frame, the history and the position counter as they were.
C32_NoFrameLeavesTheStageAlone ==
    ESNoFrameCase =>
        /\ es_op.ret = "none"
        /\ es.cur = es_op.before.cur
        /\ es.previous = es_op.before.previous
        /\ es.at = es_op.before.at

\* the source is at its end while the position counter is not (a seek moved
\* them apart), with a current frame and a history to keep
C32_Witness ==
    /\ ESNoFrameCase
    /\ es_op.before.at < ES_num_frames(es_op.before)
    /\ es_op.before.at > 0
    /\ es_op.before.cur # <<>> /\ es_op.before.previous # <<>>
    /\ es_op.ret = "none"

\* the position counter is at num_frames() after frames were returned
C32_WitnessAtEnd ==
    /\ ESNoFrameCase
    /\ es_op.before.at = ES_num_frames(es_op.before)
    /\ es_op.before.cur # <<>> /\ es_op.before.previous # <<>>
    /\ es_op.ret = "none"

\* ------------------------------------ sliding: the count of full frames
\* the first end of stream of a run of next_frame calls alone, none
\* failing, on a framer with a stride of at least 1
SFFirstEnd ==
    /\ SFPure /\ sf_op.name = "next_frame" /\ sf_op.ret = "none"
    /\ ~sf_op.ended_before
    /\ sf.stride >= 1

\* C33: for every source length, frame size >= 1 and stride >= 1, the
\* number of frames of full size that successive next_frame calls return
\* before the first end of stream is num_full_frames().
C33_FullFramesAreCounted ==
    SFFirstEnd => sf_op.full = SlidingFrame_num_full_frames(sf)

\* what holds: with a stride of 1 the frames of full size are as many as
\* num_full_frames() says
C33_FullFramesAreCountedAtStrideOne ==
    (SFFirstEnd /\ sf.stride = 1) =>
        sf_op.full = SlidingFrame_num_full_frames(sf)

\* what holds: with a stride not larger than the frame size, the frames of
\* full size are the windows k * stride .. k * stride + size - 1 that fit
\* in the source
C33_FullFramesAreTheWindowsThatFit ==
    (SFFirstEnd /\ sf.stride <= sf.size) =>
        sf_op.full = IF Wav_num_samples(sf.source) < sf.size THEN 0
                     ELSE (Wav_num_samples(sf.source) - sf.size)
                              \div sf.stride + 1

\* ------------------------------------------- sliding: the end of stream
\* C34: once next_frame has returned no frame, every later next_frame call
\* with no seek_frame in between returns no frame as well, for every frame
\* size and stride.
C34_EndOfStreamIsStable ==
    (sf_op.name = "next_frame" /\ sf_op.ended_before /\ sf.stride >= 1) =>
        sf_op.ret = "none"

\* what holds: in a run of next_frame calls alone the end of stream is
\* stable when the stride is not larger than the frame size
C34_EndOfStreamIsStableUpToSize ==
    (sf_op.name = "next_frame" /\ sf_op.ended_before /\ sf_op.pure
     /\ sf.stride >= 1 /\ sf.stride <= sf.size) =>
        sf_op.ret = "none"

\* --------------------------------------- Binner: nothing kept from a tick
\* the Binner inside the wrapper
TheBinner == stage.obj.mapper

\* the binning stage is built
BinnerReady == stage.kind = "bin" /\ stage.status = "ready"

\* what a Binner with this table and empty accumulators gives for one
\* channel of the last input frame
FreshBinnerFrame(c) ==
    Binner_map([bufs |-> [j \in 1..TheBinner.n_bins |-> <<>>],
                out_buf |-> <<>>, indexes |-> TheBinner.indexes,
                n_bins |-> TheBinner.n_bins, in_size |-> TheBinner.in_size],
               [i \in 1..Len(stage_op.input) |-> stage_op.input[i][c]]).frame

\* C35: the accumulators of the Binner are empty at the start of every
\* call of map, whatever the calls before were, and the frame of a call is
\* the one a Binner with empty accumulators gives for the call's input.
C35_MapDependsOnItsInputOnly ==
    BinnerReady =>
        /\ \A j \in 1..Len(TheBinner.bufs) : TheBinner.bufs[j] = <<>>
        /\ (StageMapped /\ stage_op.ret = "some") =>
               \A j \in 1..Len(stage_op.frame) :
                   \A c \in Channels(stage_op.input[1]) :
                       stage_op.frame[j][c] = FreshBinnerFrame(c)[j]

\* a frame was returned, with values summed into it, by a call that came
\* after a call on a frame of the wrong length
C35_Witness ==
    /\ BinnerReady /\ StageMapped /\ stage_op.ret = "some"
    /\ stage_op.before.in_bufs # None
    /\ Len(stage_op.before.in_bufs[2][2]) # TheBinner.in_size
    /\ \E j \in 1..Len(stage_op.frame) : stage_op.frame[j][2][2] # 0

\* a frame was returned by a call that came after a call that returned a
\* frame with values summed into it
C35_WitnessAfterFrame ==
    /\ BinnerReady /\ StageMapped /\ stage_op.ret = "some"
    /\ stage_op.before.in_bufs # None
    /\ \E j \in 1..Len(stage_op.before.mapper.out_buf) :
         stage_op.before.mapper.out_buf[j][2] # 0

\* ------------------------------- Savitzky-Golay: the pass reads the copy
\* the smoothing stage has just mapped a frame into a frame
SGTicked == stage.kind = "sg" /\ StageMapped /\ stage_op.ret = "some"

\* C36: every position of the frame the smoothing stage returns is computed
\* from the values the input frame had when the call began, not from
\* positions the pass has overwritten and not from the frame of a tick
\* before.
C36_PassReadsTheOriginalFrame ==
    SGTicked =>
        /\ stage.obj.buf = stage_op.input
        /\ \A p \in 1..Len(stage_op.input) :
             stage_op.frame[p] =
                 sg_point(stage_op.input, stage.obj.coefficients,
                          stage_op.windows[p])

\* the pass changed a value that a later window reads: some position before
\* the last got a new value
C36_Witness ==
    /\ SGTicked /\ Len(stage_op.input) >= 2
    /\ \E p \in 1..(Len(stage_op.input) - 1) :
         stage_op.frame[p] # stage_op.input[p]

\* ------------------------------------- Fraction: rounding and ordering
\* Fraction::mixed_number: the whole part and the fractional part, None
\* when the remainder is 0
Fraction_mixed_number(self) ==
    LET denom == self.denominator
        num == Abs(self.numerator)
        sign == signum(self.numerator)
        remainder == num % denom
        result == (num \div denom) * sign
    IN [whole |-> result,
        fractional |->
            IF remainder # 0
            THEN Some(Fraction_simplify(
                     [numerator |-> remainder * sign,
                      denominator |-> self.denominator,
                      simplified |-> FALSE]))
            ELSE None]

\* a rounded that compares twice the numerator with the denominator
Fraction_rounded_exact(self) ==
    LET m == Fraction_mixed_number(self) IN
    IF m.fractional = None THEN m.whole
    ELSE LET fractional == m.fractional[2] IN
         IF 2 * Abs(fractional.numerator) < fractional.denominator
         THEN m.whole
         ELSE m.whole + signum(fractional.numerator)

\* Fraction::rounded
Fraction_rounded(self) ==
    LET m == Fraction_mixed_number(self) IN
    IF m.fractional = None THEN m.whole
    ELSE LET fractional == m.fractional[2]
             half_denom == fractional.denominator \div 2
         IN IF half_denom = 0 THEN m.whole
            ELSE IF Abs(fractional.numerator) < half_denom THEN m.whole
            ELSE m.whole + signum(fractional.numerator)

\* i64::cmp
Int_cmp(x, y) == IF x < y THEN "Less" ELSE IF x > y THEN "Greater"
                 ELSE "Equal"

\* Ord::cmp for Fraction; PartialOrd::partial_cmp is Some of the same
Fraction_cmp(self, other) ==
    LET p == make_same_divisor(self, other) IN
    Int_cmp(p[1].numerator, p[2].numerator)

FractionOrdNew == [name |-> "new", rounded |-> 0, of |-> Fraction_new(0, 1),
                   ord |-> "Equal", rev |-> "Equal"]

InitFractionOrd ==
    /\ stage \in { [kind |-> "fraction", a |-> a, b |-> b] :
                     a \in Fractions, b \in Fractions }
    /\ stage_op = FractionOrdNew
    /\ es = ES_new([len |-> 0, full |-> 0, chans |-> <<>>, pos |-> 0], 0, 1)
    /\ es_op = NoCall /\ es_emitted = <<>>
    /\ sf = SFIdle /\ sf_op = NoCall /\ sf_count = 0
    /\ zp = ZPIdle

\* a.rounded()
FractionRounded ==
    /\ stage.kind = "fraction" /\ stage_op.name = "new"
    /\ stage_op' = [stage_op EXCEPT !.name = "rounded", !.of = stage.a,
                                    !.rounded = Fraction_rounded(stage.a)]
    /\ UNCHANGED <<esVars, sfVars, zpVars, stage>>

\* (a * b).rounded(): the frame stride (frame_rate * sample_rate) and
\* samples_from_dur (the rate over 10^9 times the nanoseconds)
FractionRoundedProduct ==
    /\ stage.kind = "fraction" /\ stage_op.name = "new"
    /\ LET prod == Fraction_mul(stage.a, stage.b) IN
       stage_op' = [stage_op EXCEPT !.name = "rounded_product",
                                    !.of = prod,
                                    !.rounded = Fraction_rounded(prod)]
    /\ UNCHANGED <<esVars, sfVars, zpVars, stage>>

\* a.cmp(&b), and b.cmp(&a)
FractionCmp ==
    /\ stage.kind = "fraction" /\ stage_op.name = "new"
    /\ stage_op' = [stage_op EXCEPT !.name = "cmp",
                                    !.ord = Fraction_cmp(stage.a, stage.b),
                                    !.rev = Fraction_cmp(stage.b, stage.a)]
    /\ UNCHANGED <<esVars, sfVars, zpVars, stage>>

NextFractionOrd == FractionRounded \/ FractionRoundedProduct \/ FractionCmp
SpecFractionOrd == InitFractionOrd /\ [][NextFractionOrd]_vars

FractionWasRounded == stage_op.name \in {"rounded", "rounded_product"}

\* twice the distance between a fraction and an integer, times the
\* denominator
TwiceOff(f, k) == 2 * Abs(k * f.denominator - f.numerator)

\* C37: rounded() is the integer nearest to the value of the fraction,
\* halves away from zero, so that it differs from the value (from the exact
\* quotient for the stride and for samples_from_dur) by at most 1/2.
C37_RoundedIsNearest ==
    (stage.kind = "fraction" /\ FractionWasRounded) =>
        /\ TwiceOff(stage_op.of, stage_op.rounded) <= stage_op.of.denominator
        /\ stage_op.rounded = Fraction_rounded_exact(stage_op.of)

\* what holds: rounded() is the whole part or the next integer away from
\* zero, and it is the nearest integer when the simplified denominator of
\* the fractional part is even or 1
C37_RoundedIsWithinOne ==
    (stage.kind = "fraction" /\ FractionWasRounded) =>
        /\ TwiceOff(stage_op.of, stage_op.rounded)
               < 2 * stage_op.of.denominator
        /\ Fraction_simplify(stage_op.of).denominator % 2 = 0 =>
               stage_op.rounded = Fraction_rounded_exact(stage_op.of)

\* the order of the values of a and b
ValueOrder(a, b) ==
    Int_cmp(a.numerator * b.denominator, b.numerator * a.denominator)

Reversed(o) == IF o = "Less" THEN "Greater"
               ELSE IF o = "Greater" THEN "Less" ELSE "Equal"

\* C38: cmp (and partial_cmp) order two Fractions as their values are
\* ordered, for every pair, a zero operand over another denominator
\* included, and a < b exactly when b > a.
C38_OrderIsTheOrderOfValues ==
    (stage.kind = "fraction" /\ stage_op.name = "cmp") =>
        /\ stage_op.ord = ValueOrder(stage.a, stage.b)
        /\ stage_op.rev = Reversed(stage_op.ord)

\* what holds: the order is right and antisymmetric unless the second
\* operand is zero over a denominator other than the first operand's
C38_OrderIsRightButForZeroOther ==
    (stage.kind = "fraction" /\ stage_op.name = "cmp") =>
        /\ ~(stage.b.numerator = 0 /\ stage.a.numerator # 0
             /\ stage.a.denominator # stage.b.denominator) =>
               stage_op.ord = ValueOrder(stage.a, stage.b)
        /\ ~(stage.a.numerator = 0 /\ stage.b.numerator # 0
             /\ stage.a.denominator # stage.b.denominator) =>
               stage_op.rev = ValueOrder(stage.b, stage.a)

\* -------------------------------------------------------------- WavPlayer
\* The player is its state, Empty, Ready or Playing, and the WavFile the
\* Ready state and the callback of the Playing state hold; with Empty the
\* WavFile is gone.  The clock readings are not modelled: a seek is by a
\* number of samples.
\* WavPlayer::new
WavPlayer_new(wav) == [state |-> "Ready", source |-> wav]

\* WavPlayer::play; `fail_open`: open_playback returns an error.  The state
\* is swapped for Empty first; the Ready value moves into the callback
\* closure, which is dropped when the device does not open.
WavPlayer_play(p, fail_open) ==
    IF p.state = "Empty" THEN [st |-> p, ret |-> "panic"]
    ELSE IF p.state = "Playing" THEN [st |-> p, ret |-> "ok"]
    ELSE IF fail_open THEN [st |-> [p EXCEPT !.state = "Empty"], ret |-> "err"]
    ELSE [st |-> [p EXCEPT !.state = "Playing"], ret |-> "ok"]

\* WavPlayer::stop
WavPlayer_stop(p) ==
    IF p.state = "Empty" THEN [st |-> p, ret |-> "panic"]
    ELSE [st |-> [p EXCEPT !.state = "Ready"], ret |-> "ok"]

\* WavPlayer::seek by n samples; `fail_seek`: the seek of the file returns
\* an error
WavPlayer_seek(p, n, fail_seek, fail_open) ==
    LET s == WavPlayer_stop(p) IN
    IF s.ret = "panic" THEN s
    ELSE LET r == Wav_seek_samples(s.st.source, n, fail_seek) IN
         IF r.ret = "err" THEN [st |-> s.st, ret |-> "err"]
         ELSE WavPlayer_play([s.st EXCEPT !.source = r.src], fail_open)

\* the audio callback reads the samples it is asked for, or those left
WavCallback_callback(p, k) ==
    [p EXCEPT !.source.sample_at =
        Min(p.source.num_samples, p.source.sample_at + k)]

PlayerNew == [name |-> "new", ret |-> "ok", before |-> "Ready",
              fail_seek |-> FALSE, fail_open |-> FALSE]

InitPlayer ==
    /\ \E N \in 0..MaxSamples :
         stage = [kind |-> "player",
                  player |-> WavPlayer_new([num_samples |-> N,
                                            sample_at |-> 0])]
    /\ stage_op = PlayerNew
    /\ es = ES_new([len |-> 0, full |-> 0, chans |-> <<>>, pos |-> 0], 0, 1)
    /\ es_op = NoCall /\ es_emitted = <<>>
    /\ sf = SFIdle /\ sf_op = NoCall /\ sf_count = 0
    /\ zp = ZPIdle

PlayerPlay ==
    /\ stage.kind = "player" /\ stage_op.ret # "panic"
    /\ \E fail_open \in BOOLEAN :
         LET r == WavPlayer_play(stage.player, fail_open) IN
         /\ stage' = [stage EXCEPT !.player = r.st]
         /\ stage_op' = [name |-> "play", ret |-> r.ret,
                         before |-> stage.player.state,
                         fail_seek |-> FALSE, fail_open |-> fail_open]
    /\ UNCHANGED <<esVars, sfVars, zpVars>>

PlayerStop ==
    /\ stage.kind = "player" /\ stage_op.ret # "panic"
    /\ LET r == WavPlayer_stop(stage.player) IN
       /\ stage' = [stage EXCEPT !.player = r.st]
       /\ stage_op' = [name |-> "stop", ret |-> r.ret,
                       before |-> stage.player.state,
                       fail_seek |-> FALSE, fail_open |-> FALSE]
    /\ UNCHANGED <<esVars, sfVars, zpVars>>

PlayerSeek ==
    /\ stage.kind = "player" /\ stage_op.ret # "panic"
    /\ \E n \in 0..MaxSeek, fail_seek \in BOOLEAN, fail_open \in BOOLEAN :
         LET r == WavPlayer_seek(stage.player, n, fail_seek, fail_open) IN
         /\ stage' = [stage EXCEPT !.player = r.st]
         /\ stage_op' = [name |-> "seek", ret |-> r.ret,
                         before |-> stage.player.state,
                         fail_seek |-> fail_seek, fail_open |-> fail_open]
    /\ UNCHANGED <<esVars, sfVars, zpVars>>

\* the audio device calls the callback of a playing player
PlayerCallback ==
    /\ stage.kind = "player" /\ stage_op.ret # "panic"
    /\ stage.player.state = "Playing"
    /\ stage' = [stage EXCEPT !.player = WavCallback_callback(@, 1)]
    /\ stage_op' = [name |-> "callback", ret |-> "ok",
                    before |-> stage.player.state,
                    fail_seek |-> FALSE, fail_open |-> FALSE]
    /\ UNCHANGED <<esVars, sfVars, zpVars>>

NextPlayer == PlayerPlay \/ PlayerStop \/ PlayerSeek \/ PlayerCallback
SpecPlayer == InitPlayer /\ [][NextPlayer]_vars

\* C39: after any sequence of play, stop and seek calls, calls in which the
\* device does not open or the seek of the source fails included, the
\* player is Ready or Playing, never Empty, and no play or stop reaches the
\* abort on Empty.
C39_PlayerIsNeverEmpty ==
    stage.kind = "player" =>
        /\ stage.player.state \in {"Ready", "Playing"}
        /\ stage_op.ret # "panic"

\* what holds: the player is Ready or Playing as long as no open_playback
\* has failed, a failed seek of the source included
C39_PlayerIsEmptyOnlyAfterFailedOpen ==
    stage.kind = "player" =>
        \/ stage.player.state \in {"Ready", "Playing"}
        \/ stage_op.ret = "err" /\ stage_op.fail_open
        \/ stage_op.before = "Empty"

\* ------------------------------------------------- the driver (visualize)
\* The loop of visualize after the window, the pipeline and the player are
\* made: `stage` is the player, the flag `paused`, where the function is
\* (before the loop, in it, returned, aborted), the frames the pipeline has
\* and how many were pulled, and the length of the seek of the Right key in
\* frames and samples.  Clock readings are not modelled: a pass of the loop
\* either is ahead (it sleeps) or produces a frame.
DriverNew == [name |-> "new", ret |-> "ok", pulled |-> FALSE,
              paused_before |-> FALSE]

InitDriver ==
    /\ \E N \in 0..MaxSamples, len \in 0..MaxFrames, k \in 1..MaxSeek :
         stage = [kind |-> "driver", pc |-> "start", paused |-> FALSE,
                  player |-> WavPlayer_new([num_samples |-> N,
                                            sample_at |-> 0]),
                  frames_len |-> len, frames_at |-> 0, seek |-> k]
    /\ stage_op = DriverNew
    /\ es = ES_new([len |-> 0, full |-> 0, chans |-> <<>>, pos |-> 0], 0, 1)
    /\ es_op = NoCall /\ es_emitted = <<>>
    /\ sf = SFIdle /\ sf_op = NoCall /\ sf_count = 0
    /\ zp = ZPIdle

\* where the function goes after a call that returned ret
DriverAfter(ret) == IF ret = "panic" THEN "aborted"
                    ELSE IF ret = "err" THEN "returned_err" ELSE "loop"

\* wav_player.play()? before the loop
DriverStart ==
    /\ stage.kind = "driver" /\ stage.pc = "start"
    /\ \E fail_open \in BOOLEAN :
         LET r == WavPlayer_play(stage.player, fail_open) IN
         /\ stage' = [stage EXCEPT !.player = r.st, !.pc = DriverAfter(r.ret)]
         /\ stage_op' = [name |-> "start", ret |-> r.ret, pulled |-> FALSE,
                         paused_before |-> FALSE]
    /\ UNCHANGED <<esVars, sfVars, zpVars>>

\* the Right key: wav_player.seek(amount_seek)?, frames.seek_frame(..)?
DriverRight ==
    /\ stage.kind = "driver" /\ stage.pc = "loop"
    /\ \E fail_seek \in BOOLEAN, fail_open \in BOOLEAN, fail_frames \in BOOLEAN :
         LET r == WavPlayer_seek(stage.player, stage.seek, fail_seek,
                                 fail_open)
             ret == IF r.ret = "ok" /\ fail_frames THEN "err" ELSE r.ret
         IN
         /\ stage' = [stage EXCEPT
                        !.player = r.st, !.pc = DriverAfter(ret),
                        !.frames_at = IF ret = "ok"
                                      THEN Min(stage.frames_len,
                                               @ + stage.seek)
                                      ELSE @]
         /\ stage_op' = [name |-> "right", ret |-> ret, pulled |-> FALSE,
                         paused_before |-> stage.paused]
    /\ UNCHANGED <<esVars, sfVars, zpVars>>

\* the Space key: play when paused, stop when not; the flag is flipped
DriverSpace ==
    /\ stage.kind = "driver" /\ stage.pc = "loop"
    /\ \E fail_open \in BOOLEAN :
         LET r == IF stage.paused THEN WavPlayer_play(stage.player, fail_open)
                  ELSE WavPlayer_stop(stage.player)
         IN
         /\ stage' = [stage EXCEPT
                        !.player = r.st, !.pc = DriverAfter(r.ret),
                        !.paused = IF r.ret = "ok" THEN ~@ ELSE @]
         /\ stage_op' = [name |-> "space", ret |-> r.ret, pulled |-> FALSE,
                         paused_before |-> stage.paused]
    /\ UNCHANGED <<esVars, sfVars, zpVars>>

\* Quit or Escape
DriverQuit ==
    /\ stage.kind = "driver" /\ stage.pc = "loop"
    /\ stage' = [stage EXCEPT !.pc = "returned"]
    /\ stage_op' = [name |-> "quit", ret |-> "ok", pulled |-> FALSE,
                    paused_before |-> stage.paused]
    /\ UNCHANGED <<esVars, sfVars, zpVars>>

\* the frame production of one pass; `ahead`: the pass sleeps or sets the
\* first time stamp; `fail`: next_frame returns an error
DriverFrame ==
    /\ stage.kind = "driver" /\ stage.pc = "loop"
    /\ \E ahead \in BOOLEAN, fail \in BOOLEAN :
         LET op == [name |-> "frame", ret |-> "ok", pulled |-> FALSE,
                    paused_before |-> stage.paused] IN
         IF ahead \/ stage.paused
         THEN /\ stage' = stage
              /\ stage_op' = op
         ELSE IF fail
         THEN /\ stage' = [stage EXCEPT !.pc = "returned_err"]
              /\ stage_op' = [op EXCEPT !.ret = "err", !.pulled = TRUE]
         ELSE IF stage.frames_at < stage.frames_len
         THEN /\ stage' = [stage EXCEPT !.frames_at = @ + 1]
              /\ stage_op' = [op EXCEPT !.pulled = TRUE]
         ELSE LET r == WavPlayer_stop(stage.player) IN
              /\ stage' = [stage EXCEPT
                             !.player = r.st,
                             !.pc = IF r.ret = "ok" THEN "returned"
                                    ELSE DriverAfter(r.ret)]
              /\ stage_op' = [op EXCEPT !.ret = r.ret, !.pulled = TRUE]
    /\ UNCHANGED <<esVars, sfVars, zpVars>>

\* the audio device calls the callback of the playing player
DriverCallback ==
    /\ stage.kind = "driver" /\ stage.pc = "loop"
    /\ stage.player.state = "Playing"
    /\ stage' = [stage EXCEPT !.player = WavCallback_callback(@, 1)]
    /\ stage_op' = [name |-> "callback", ret |-> "ok", pulled |-> FALSE,
                    paused_before |-> stage.paused]
    /\ UNCHANGED <<esVars, sfVars, zpVars>>

NextDriver ==
    \/ DriverStart \/ DriverRight \/ DriverSpace \/ DriverQuit
    \/ DriverFrame \/ DriverCallback
SpecDriver == InitDriver /\ [][NextDriver]_vars

DriverLoops == stage.kind = "driver" /\ stage.pc = "loop"

\* C40: in the driver loop, whenever `paused` is true the player is not
\* Playing and no frame is pulled from the pipeline; the Right key pressed
\* while paused keeps the audio and the frames paused.
C40_PausedMeansNotPlaying ==
    DriverLoops =>
        /\ stage.paused => stage.player.state # "Playing"
        /\ stage_op.pulled => ~stage_op.paused_before

\* what holds: no frame is pulled while `paused` is true, and the player
\* plays while paused only after the Right key
C40_PausedPullsNoFrame ==
    DriverLoops =>
        /\ stage_op.pulled => ~stage_op.paused_before
        /\ (stage.paused /\ stage.player.state = "Playing"
            /\ stage_op.name # "callback") =>
               \/ stage_op.name = "right"
               \/ stage_op.name = "frame" /\ ~stage_op.pulled

====
